---- MODULE Spec2Model ----
(***************************************************************************)
(* Permission-aware hierarchical file system of the FMS server:            *)
(* the persistence layer (DatabaseStorage) and the request handlers of     *)
(* registerRoutes that create, share, rename, move, soft-delete, restore   *)
(* and permanently delete files and folders.                               *)
(*                                                                         *)
(* Every request handler is one action.  The tables are functions from     *)
(* the ids of the rows that exist to the rows.                             *)
(***************************************************************************)
EXTENDS Integers, Sequences, FiniteSets, TLC

\* ------------------------------------------------------------------ bounds
\* Users of the system.
NumUsers == 2
\* Rows ever inserted into folders, files and permissions under SpecAccess.
AccFolders == 2
AccFiles == 1
AccPerms == 2
\* The same under SpecLife.
LifeFolders == 1
LifeFiles == 1
LifePerms == 1
\* The same under SpecTree, which grants nothing.
TreeFolders == 2
TreeFiles == 2
\* SpecIngest: ingestions start while fewer than this many Folder rows and
\* File rows have been inserted.
IngestFolders == 2
IngestFiles == 1
\* Rows ever inserted under SpecBulk.
BulkFolders == 1
BulkFiles == 2
BulkPerms == 1
\* The same under SpecVis.
VisFolders == 2
VisFiles == 1
VisPerms == 1
\* Folder rows ever inserted under SpecWalk.
WalkFolders == 2
\* SpecFail: folders are created by hand and ingestions start while fewer
\* than this many Folder rows, and uploads while fewer than this many File
\* rows, have been inserted.
FailFolders == 1
FailFiles == 2
\* SpecRace: folders created by hand, requests that ever got past their
\* first await, and requests in flight at the same time.
RaceFolders == 2
RaceCalls == 2
MaxCalls == 2
\* Rows ever inserted under SpecShare.
ShareFolders == 1
ShareFiles == 1
SharePerms == 2
\* Rows ever inserted by hand under SpecDest; its uploads add at most
\* DestFiles files and the folders of their paths.
DestFolders == 2
DestFiles == 2
DestPerms == 1

\* ------------------------------------------------------------- value sets
\* NULL of a nullable integer column; AUTO_INCREMENT ids start at 1.
Null == 0
\* The value new Date() stores in deleted_at: some non-null timestamp.
Now == "now"
NullTs == "null"

Users == 1..NumUsers
Names == {"a", "b"}
Sizes == {1, 2}
AccessLevels == {"view", "download", "edit"}
TargetTypes == {"file", "folder"}

VARIABLES
  folders,      \* table folders: id -> row
  files,        \* table files: id -> row
  permissions,  \* table permissions: id -> row
  disk,         \* storage paths that exist in the uploads directory
  nextFolderId, \* AUTO_INCREMENT counters of the three tables
  nextFileId,
  nextPermId,
  resp,         \* the last request and the response it got
  zips,         \* storage path -> the archive stored under it, for the
                \* paths whose content is a readable ZIP archive
  calls         \* the requests in flight between two of their awaits

vars == <<folders, files, permissions, disk, nextFolderId, nextFileId, nextPermId, resp, zips, calls>>

\* ---------------------------------------------------------------- helpers
\* A set of ids as the sequence a SELECT returns them in (primary-key order).
RECURSIVE SeqOfSet(_)
SeqOfSet(S) ==
  IF S = {} THEN << >>
  ELSE LET m == CHOOSE x \in S : \A y \in S : x <= y
       IN <<m>> \o SeqOfSet(S \ {m})

\* The function tbl without the rows whose id is in ids.
RemoveRows(tbl, ids) == [i \in (DOMAIN tbl) \ ids |-> tbl[i]]

\* The function tbl with row added under id.
InsertRow(tbl, id, row) == [i \in (DOMAIN tbl) \cup {id} |-> IF i = id THEN row ELSE tbl[i]]

\* The last request and its answer: the operation, the session user, the id
\* in the request, the folder a move names (arg), the HTTP status (0: the
\* handler never answers), the files permanentDeleteFolder returned (ret),
\* and, kept for the next request only, the row a soft delete replaced
\* (before), the archive an ingestion read (archive) and the Permission rows
\* a permanent file delete took with it (gone), and the folders and files a
\* listing, a trash request or the folder part of a download returned
\* (listing), the file ids and folder ids a bulk download names or the
\* paths a folder upload names (req), and,
\* kept for the next request only, the tables as they were before a folder
\* was soft-deleted (snap).
Response(op, user, id, status) ==
  [op |-> op, user |-> user, id |-> id, arg |-> Null, status |-> status,
   ret |-> << >>, before |-> << >>, archive |-> << >>, gone |-> {},
   listing |-> [folders |-> {}, files |-> {}], req |-> << >>, snap |-> << >>]

\* --------------------------------------------------------- DatabaseStorage
\* Mutant of CascadeFilePerms: the Permission rows of a deleted file stay.
CascadeFilePermsNone(perms, fileIds) == perms

\* ON DELETE CASCADE of permissions.file_id.
CascadeFilePerms(perms, fileIds) ==
  RemoveRows(perms, {p \in DOMAIN perms : perms[p].fileId \in fileIds})

\* ON DELETE CASCADE of permissions.folder_id.
CascadeFolderPerms(perms, folderIds) ==
  RemoveRows(perms, {p \in DOMAIN perms : perms[p].folderId \in folderIds})

\* The Permission rows the query of checkAccess matches; a column that is
\* NULL equals no id.
DirectPermissions(targetId, targetType, userId) ==
  {p \in DOMAIN permissions :
     /\ targetId # Null
     /\ permissions[p].userId = userId
     /\ IF targetType = "file"
        THEN permissions[p].fileId = targetId
        ELSE permissions[p].folderId = targetId}

\* Mutant of IsOwner: a user the item is shared with counts as its owner.
IsOwnerOrGrantee(targetId, targetType, userId) ==
  \/ IF targetType = "file"
     THEN targetId \in DOMAIN files /\ files[targetId].createdBy = userId
     ELSE targetId \in DOMAIN folders /\ folders[targetId].ownerId = userId
  \/ DirectPermissions(targetId, targetType, userId) # {}

\* file?.createdBy === userId / folder?.ownerId === userId
IsOwner(targetId, targetType, userId) ==
  IF targetType = "file"
  THEN targetId \in DOMAIN files /\ files[targetId].createdBy = userId
  ELSE targetId \in DOMAIN folders /\ folders[targetId].ownerId = userId

\* Mutant of GrantAllows: every capability needs the stored level to equal it.
GrantAllowsExactOnly(p, requiredLevel) ==
  permissions[p].accessLevel = requiredLevel

\* What checkAccess answers when its query puts row p first.
GrantAllows(p, requiredLevel) ==
  \/ requiredLevel = "view"
  \/ requiredLevel = "edit" /\ permissions[p].accessLevel = "edit"

\* Mutant of CheckAccess: the ownership test is left out.
CheckAccessNoOwner(targetId, targetType, userId, requiredLevel) ==
  LET rows == DirectPermissions(targetId, targetType, userId)
  IN IF rows = {} THEN {FALSE}
     ELSE {GrantAllows(p, requiredLevel) : p \in rows}

\* Mutant of CheckAccess: a grant on the parent folder counts for the child.
CheckAccessInherits(targetId, targetType, userId, requiredLevel) ==
  LET parent == IF targetType = "file"
                THEN IF targetId \in DOMAIN files THEN files[targetId].folderId ELSE Null
                ELSE IF targetId \in DOMAIN folders THEN folders[targetId].parentId ELSE Null
      rows == DirectPermissions(targetId, targetType, userId)
                \cup DirectPermissions(parent, "folder", userId)
  IN IF IsOwner(targetId, targetType, userId) THEN {TRUE}
     ELSE IF rows = {} THEN {FALSE}
     ELSE {GrantAllows(p, requiredLevel) : p \in rows}

\* checkAccess: the set of answers it can give.  The query has no ORDER BY
\* and the code looks at its first row only, so with several matching rows
\* any of them may decide.
CheckAccess(targetId, targetType, userId, requiredLevel) ==
  IF IsOwner(targetId, targetType, userId) THEN {TRUE}
  ELSE LET rows == DirectPermissions(targetId, targetType, userId)
       IN IF rows = {} THEN {FALSE}
          ELSE {GrantAllows(p, requiredLevel) : p \in rows}

createFolder(tbl, id, name, parentId, ownerId) ==
  InsertRow(tbl, id, [name |-> name, parentId |-> parentId, ownerId |-> ownerId,
                      isDeleted |-> FALSE, deletedAt |-> NullTs, deletedBy |-> Null])

createFile(tbl, id, name, folderId, size, path, createdBy) ==
  InsertRow(tbl, id, [name |-> name, folderId |-> folderId, size |-> size, path |-> path,
                      createdBy |-> createdBy,
                      isDeleted |-> FALSE, deletedAt |-> NullTs, deletedBy |-> Null])

createPermission(tbl, id, fileId, folderId, userId, grantedBy, accessLevel) ==
  InsertRow(tbl, id, [fileId |-> fileId, folderId |-> folderId, userId |-> userId,
                      grantedBy |-> grantedBy, accessLevel |-> accessLevel])

deletePermission(tbl, id) == RemoveRows(tbl, {id})

deleteFile(tbl, fileId, userId) ==
  [i \in DOMAIN tbl |->
     IF i = fileId
     THEN [tbl[i] EXCEPT !.isDeleted = TRUE, !.deletedAt = Now, !.deletedBy = userId]
     ELSE tbl[i]]

\* Mutant of restoreFile: only the flag is cleared.
restoreFileFlagOnly(tbl, fileId) ==
  [i \in DOMAIN tbl |-> IF i = fileId THEN [tbl[i] EXCEPT !.isDeleted = FALSE] ELSE tbl[i]]

restoreFile(tbl, fileId) ==
  [i \in DOMAIN tbl |->
     IF i = fileId
     THEN [tbl[i] EXCEPT !.isDeleted = FALSE, !.deletedAt = NullTs, !.deletedBy = Null]
     ELSE tbl[i]]

permanentDeleteFile(tbl, fileId) == RemoveRows(tbl, {fileId})

\* renameFile and moveFile return undefined, and change nothing, when the
\* row does not exist; the handlers test that before they call these.
renameFile(tbl, fileId, newName) ==
  [i \in DOMAIN tbl |-> IF i = fileId THEN [tbl[i] EXCEPT !.name = newName] ELSE tbl[i]]

moveFile(tbl, fileId, targetFolderId) ==
  [i \in DOMAIN tbl |-> IF i = fileId THEN [tbl[i] EXCEPT !.folderId = targetFolderId] ELSE tbl[i]]

renameFolder(tbl, folderId, newName) ==
  [i \in DOMAIN tbl |-> IF i = folderId THEN [tbl[i] EXCEPT !.name = newName] ELSE tbl[i]]

\* Mutant of MoveFolderRejects: the test folderId === targetFolderId is left out.
MoveFolderRejectsMissingOnly(tbl, folderId, targetFolderId) ==
  folderId \notin DOMAIN tbl

\* moveFolder answers undefined for a missing folder and for a folder moved
\* into itself; nothing else is checked.
MoveFolderRejects(tbl, folderId, targetFolderId) ==
  \/ folderId \notin DOMAIN tbl
  \/ folderId = targetFolderId

moveFolder(tbl, folderId, targetFolderId) ==
  IF MoveFolderRejects(tbl, folderId, targetFolderId) THEN tbl
  ELSE [tbl EXCEPT ![folderId].parentId = targetFolderId]

\* Mutant of deleteFolder: the folders directly inside are marked as well.
deleteFolderAndChildren(tbl, folderId, userId) ==
  [i \in DOMAIN tbl |->
     IF i = folderId \/ tbl[i].parentId = folderId
     THEN [tbl[i] EXCEPT !.isDeleted = TRUE, !.deletedAt = Now, !.deletedBy = userId]
     ELSE tbl[i]]

deleteFolder(tbl, folderId, userId) ==
  [i \in DOMAIN tbl |->
     IF i = folderId
     THEN [tbl[i] EXCEPT !.isDeleted = TRUE, !.deletedAt = Now, !.deletedBy = userId]
     ELSE tbl[i]]

\* Mutant of restoreFolder: only the flag is cleared.
restoreFolderFlagOnly(tbl, folderId) ==
  [i \in DOMAIN tbl |-> IF i = folderId THEN [tbl[i] EXCEPT !.isDeleted = FALSE] ELSE tbl[i]]

\* Mutant of restoreFolder: the folders directly inside are restored as well.
restoreFolderAndChildren(tbl, folderId) ==
  [i \in DOMAIN tbl |->
     IF i = folderId \/ tbl[i].parentId = folderId
     THEN [tbl[i] EXCEPT !.isDeleted = FALSE, !.deletedAt = NullTs, !.deletedBy = Null]
     ELSE tbl[i]]

restoreFolder(tbl, folderId) ==
  [i \in DOMAIN tbl |->
     IF i = folderId
     THEN [tbl[i] EXCEPT !.isDeleted = FALSE, !.deletedAt = NullTs, !.deletedBy = Null]
     ELSE tbl[i]]

removePermission(tbl, targetId, targetType, userId) ==
  RemoveRows(tbl, {p \in DOMAIN tbl :
                     /\ tbl[p].userId = userId
                     /\ IF targetType = "file" THEN tbl[p].fileId = targetId
                                               ELSE tbl[p].folderId = targetId})

\* The folders below the folders of S, S included.
RECURSIVE Closure(_, _)
Closure(tbl, S) ==
  LET S2 == S \cup {c \in DOMAIN tbl : tbl[c].parentId \in S}
  IN IF S2 = S THEN S ELSE Closure(tbl, S2)

\* The folders the recursion of permanentDeleteFolder(folderId) calls itself on.
StrictDescendants(tbl, folderId) ==
  Closure(tbl, {c \in DOMAIN tbl : tbl[c].parentId = folderId})

\* The recursion comes back to folderId: it never ends.
RecursionDiverges(tbl, folderId) == folderId \in StrictDescendants(tbl, folderId)

\* permanentDeleteFolder on db = [folders, files, permissions]: the rows left
\* and the files returned.  Only used where the recursion ends.
RECURSIVE permanentDeleteFolder(_, _), PurgeChildren(_, _, _)
permanentDeleteFolder(db, folderId) ==
  LET directFiles == SeqOfSet({f \in DOMAIN db.files : db.files[f].folderId = folderId})
      childFolders == SeqOfSet({c \in DOMAIN db.folders : db.folders[c].parentId = folderId})
      sub == PurgeChildren(db, childFolders, 1)
      gone == {f \in DOMAIN sub.db.files : sub.db.files[f].folderId = folderId}
  IN [db |-> [folders |-> RemoveRows(sub.db.folders, {folderId}),
              files |-> RemoveRows(sub.db.files, gone),
              permissions |-> CascadeFolderPerms(
                                CascadeFilePerms(sub.db.permissions, gone), {folderId})],
      allFiles |-> [k \in 1..Len(directFiles) |->
                      [id |-> directFiles[k], path |-> db.files[directFiles[k]].path]]
                   \o sub.allFiles]

\* for (const child of childFolders) allFiles.push(...permanentDeleteFolder(child.id))
PurgeChildren(db, childFolders, k) ==
  IF k > Len(childFolders) THEN [db |-> db, allFiles |-> << >>]
  ELSE LET one == permanentDeleteFolder(db, childFolders[k])
           more == PurgeChildren(one.db, childFolders, k + 1)
       IN [db |-> more.db, allFiles |-> one.allFiles \o more.allFiles]

\* ------------------------------------------------------- listing queries
\* The tables as one value, for the queries that are asked of a state.
Db == [folders |-> folders, files |-> files, permissions |-> permissions]

\* The folders named by the Permission rows of userId that carry no fileId.
SharedFolderIds(db, userId) ==
  {db.permissions[p].folderId :
     p \in {q \in DOMAIN db.permissions :
              db.permissions[q].userId = userId /\ db.permissions[q].fileId = Null}} \ {Null}

\* The files named by the Permission rows of userId that carry no folderId.
SharedFileIds(db, userId) ==
  {db.permissions[p].fileId :
     p \in {q \in DOMAIN db.permissions :
              db.permissions[q].userId = userId /\ db.permissions[q].folderId = Null}} \ {Null}

\* Mutant of getFolders: the folders of the user are returned wherever they
\* are.
getFoldersAnywhere(db, parentId, userId) ==
  {f \in DOMAIN db.folders : db.folders[f].ownerId = userId /\ ~db.folders[f].isDeleted}

\* getFolders / getFoldersWithPermissions: the rows returned (as ids).  At
\* the root: the user's own root folders and every folder shared with the
\* user; below: the children of parentId.  Deleted rows are left out; the
\* row of parentId itself is never read.
getFolders(db, parentId, userId) ==
  IF parentId = Null
  THEN {f \in DOMAIN db.folders :
          \/ /\ db.folders[f].parentId = Null
             /\ db.folders[f].ownerId = userId
             /\ ~db.folders[f].isDeleted
          \/ /\ f \in SharedFolderIds(db, userId)
             /\ ~db.folders[f].isDeleted}
  ELSE {f \in DOMAIN db.folders :
          db.folders[f].parentId = parentId /\ ~db.folders[f].isDeleted}

\* getFiles / getFilesWithPermissions, in the same way.
getFiles(db, folderId, userId) ==
  IF folderId = Null
  THEN {f \in DOMAIN db.files :
          \/ /\ db.files[f].folderId = Null
             /\ db.files[f].createdBy = userId
             /\ ~db.files[f].isDeleted
          \/ /\ f \in SharedFileIds(db, userId)
             /\ ~db.files[f].isDeleted}
  ELSE {f \in DOMAIN db.files :
          db.files[f].folderId = folderId /\ ~db.files[f].isDeleted}

\* -------------------------------------------------------------- archives
\* An archive is the sequence of its entries, in the order getEntries()
\* gives them.  An entry is [data, entryName, isDirectory]: entryName is the
\* name split at "/" (a directory entry "a/b/" is <<"a", "b", "">>), data is
\* <<archive>> when the content of the entry is itself a readable archive
\* and << >> otherwise.

\* The names that end in .zip, among the names that occur.
ZipNames == {"docs.zip", "a.zip"}

\* Mutant of IsZipName: no entry is taken for a nested archive.
IsZipNameNever(name) == FALSE

\* fileName.toLowerCase().endsWith('.zip')
IsZipName(name) == name \in ZipNames

\* fileName.replace(/\.zip$/i, '')
ZipStem(name) ==
  CASE name = "docs.zip" -> "docs"
    [] name = "a.zip" -> "a"
    [] OTHER -> name

\* pathStr.replace(/^\.?\//, "").replace(/\/$/, "") of processZip.
Normalize(pathStr) ==
  LET q == IF Len(pathStr) > 1 /\ pathStr[1] \in {".", ""} THEN Tail(pathStr) ELSE pathStr
  IN IF Len(q) > 0 /\ q[Len(q)] = "" THEN SubSeq(q, 1, Len(q) - 1) ELSE q

\* path.dirname and path.basename; <<".">> is the path ".".
Dirname(pathStr) ==
  IF Len(pathStr) <= 1 THEN <<".">> ELSE SubSeq(pathStr, 1, Len(pathStr) - 1)

Basename(pathStr) == pathStr[Len(pathStr)]

\* The state a handler works on while it ingests: the tables, the uploads
\* directory, the counters, and the folderCache of the archive in hand.
St ==
  [folders |-> folders, files |-> files, permissions |-> permissions, disk |-> disk,
   nextFolderId |-> nextFolderId, nextFileId |-> nextFileId, zips |-> zips,
   cache |-> << >>]

\* Mutant of FindOrCreateFolder: the lookup among the folders that exist is
\* left out, a folder is created every time.
FindOrCreateFolderNoLookup(st, u, parentFolderId, folderName) ==
  {[st |-> [st EXCEPT !.folders = createFolder(@, st.nextFolderId, folderName,
                                                parentFolderId, u),
                      !.nextFolderId = @ + 1],
    id |-> st.nextFolderId]}

\* allFolders.find(f => f.name === folderName && !f.isDeleted) over
\* getFolders(parentFolderId, user), else createFolder: the outcomes, one for
\* each row the unordered query may put first.
FindOrCreateFolder(st, u, parentFolderId, folderName) ==
  LET existing == {f \in getFolders(st, parentFolderId, u) :
                     st.folders[f].name = folderName /\ ~st.folders[f].isDeleted}
  IN IF existing # {}
     THEN {[st |-> st, id |-> f] : f \in existing}
     ELSE {[st |-> [st EXCEPT !.folders = createFolder(@, st.nextFolderId, folderName,
                                                        parentFolderId, u),
                              !.nextFolderId = @ + 1],
            id |-> st.nextFolderId]}

\* getOrCreateFolder of processZip, relative to the folder parentId.
RECURSIVE GetOrCreateFolder(_, _, _, _)
GetOrCreateFolder(st, u, parentId, pathStr) ==
  LET normalized == Normalize(pathStr)
  IN IF normalized = << >> \/ normalized = <<".">>
     THEN {[st |-> st, id |-> parentId]}
     ELSE IF normalized \in DOMAIN st.cache
     THEN {[st |-> st, id |-> st.cache[normalized]]}
     ELSE LET parentPath == Dirname(normalized)
              ups == GetOrCreateFolder(st, u, parentId,
                                       IF parentPath = <<".">> THEN << >> ELSE parentPath)
          IN UNION {{[st |-> [r.st EXCEPT !.cache = (normalized :> r.id) @@ @], id |-> r.id]
                       : r \in FindOrCreateFolder(up.st, u, up.id, Basename(normalized))}
                    : up \in ups}

\* fs.writeFileSync to a fresh path, then createFile.
StoreEntry(st, u, fileName, targetFolderId, data) ==
  [st EXCEPT !.files = createFile(@, st.nextFileId, fileName, targetFolderId, 1,
                                  st.nextFileId, u),
             !.disk = @ \cup {st.nextFileId},
             !.zips = IF data = << >> THEN @ ELSE (st.nextFileId :> data[1]) @@ @,
             !.nextFileId = @ + 1]

\* Mutant of AfterNested: a nested archive that cannot be read ends the loop
\* over the entries.
AfterNestedAborts(zip, k) == IF zip[k].data = << >> THEN Len(zip) + 1 ELSE k + 1

\* try { ... } catch (err) { console.error(...) } continue: whether or not
\* the nested archive could be read, the loop goes on with the next entry.
AfterNested(zip, k) == k + 1

\* processZip(zip, parentId): the states it can end in.  Every call has its
\* own folderCache; an entry named *.zip becomes a folder and is not stored.
RECURSIVE processZip(_, _, _, _), ProcessEntries(_, _, _, _, _)
processZip(st, u, zip, parentId) ==
  {[r EXCEPT !.cache = st.cache] :
     r \in ProcessEntries([st EXCEPT !.cache = (<< >> :> parentId)], u, zip, parentId, 1)}

\* for (const entry of zipEntries) { ... }, from entry k on.
ProcessEntries(st, u, zip, parentId, k) ==
  IF k > Len(zip) THEN {st}
  ELSE LET entry == zip[k]
           fileName == Basename(entry.entryName)
       IN IF entry.isDirectory
          THEN UNION {ProcessEntries(r.st, u, zip, parentId, k + 1)
                        : r \in GetOrCreateFolder(st, u, parentId, entry.entryName)}
          ELSE UNION {
                 IF IsZipName(fileName)
                 THEN UNION {UNION {ProcessEntries(n, u, zip, parentId, AfterNested(zip, k))
                                      : n \in IF entry.data = << >> THEN {z.st}
                                              ELSE processZip(z.st, u, entry.data[1], z.id)}
                               : z \in FindOrCreateFolder(r.st, u, r.id, ZipStem(fileName))}
                 ELSE ProcessEntries(StoreEntry(r.st, u, fileName, r.id, << >>),
                                     u, zip, parentId, k + 1)
                 : r \in GetOrCreateFolder(st, u, parentId, Dirname(entry.entryName))}

\* ----------------------------------------------- auto-extract of GET /api/fs
\* The for loop of the auto-extract getOrCreateFolder over the parts of the
\* path, from part i on: only its own folderCache is consulted.
RECURSIVE AutoParts(_, _, _, _, _)
AutoParts(st, u, parts, parentId, i) ==
  IF i > Len(parts) THEN [st |-> st, id |-> parentId]
  ELSE LET subPath == SubSeq(parts, 1, i)
       IN IF subPath \in DOMAIN st.cache
          THEN AutoParts(st, u, parts, st.cache[subPath], i + 1)
          ELSE AutoParts([st EXCEPT !.folders = createFolder(@, st.nextFolderId, parts[i],
                                                            parentId, u),
                                    !.nextFolderId = @ + 1,
                                    !.cache = (subPath :> st.nextFolderId) @@ @],
                         u, parts, st.nextFolderId, i + 1)

\* getOrCreateFolder of the auto-extract, below the folder extractedId.
AutoGetOrCreateFolder(st, u, extractedId, pathStr) ==
  LET p == IF Len(pathStr) > 0 /\ pathStr[Len(pathStr)] = ""
           THEN SubSeq(pathStr, 1, Len(pathStr) - 1) ELSE pathStr
  IN IF pathStr = << >> \/ pathStr = <<".">> THEN [st |-> st, id |-> extractedId]
     ELSE IF p \in DOMAIN st.cache THEN [st |-> st, id |-> st.cache[p]]
     ELSE AutoParts(st, u, p, extractedId, 1)

\* for (const entry of zipEntries) { ... } of the auto-extract, from entry k
\* on: every entry that is not a directory is stored as a file.
RECURSIVE AutoEntries(_, _, _, _, _)
AutoEntries(st, u, zip, extractedId, k) ==
  IF k > Len(zip) THEN st
  ELSE LET entry == zip[k]
       IN IF entry.isDirectory
          THEN AutoEntries(AutoGetOrCreateFolder(st, u, extractedId, entry.entryName).st,
                           u, zip, extractedId, k + 1)
          ELSE LET r == AutoGetOrCreateFolder(st, u, extractedId, Dirname(entry.entryName))
               IN AutoEntries(StoreEntry(r.st, u, Basename(entry.entryName), r.id, entry.data),
                              u, zip, extractedId, k + 1)

\* Mutant of AutoExtractOne: the test for a folder named after the stem is
\* left out.
AutoExtractOneNoGuard(st, u, folderId, zipFileId, zipFile) ==
  LET zipFolderName == ZipStem(zipFile.name)
  IN IF zipFile.path \notin st.disk THEN st
     ELSE IF zipFile.path \notin DOMAIN st.zips THEN st
     ELSE IF folderId # Null /\ folderId \notin DOMAIN st.folders THEN st
     ELSE LET extractedId == st.nextFolderId
              s1 == [st EXCEPT !.folders = createFolder(@, extractedId, zipFolderName,
                                                        folderId, u),
                               !.nextFolderId = @ + 1,
                               !.cache = (<< >> :> extractedId)]
              s2 == AutoEntries(s1, u, st.zips[zipFile.path], extractedId, 1)
          IN [s2 EXCEPT !.files = permanentDeleteFile(@, zipFileId),
                        !.permissions = CascadeFilePerms(@, {zipFileId}),
                        !.disk = @ \ {zipFile.path},
                        !.cache = << >>]

\* One round of the loop over zipFiles: zipFile is the row as the listing
\* returned it before the loop.  Content that is no archive makes new AdmZip
\* throw, and a parent that does not exist makes createFolder throw; the
\* catch leaves the tables as they are.
AutoExtractOne(st, u, folderId, zipFileId, zipFile) ==
  LET zipFolderName == ZipStem(zipFile.name)
      existingFolder == \E f \in getFolders(st, folderId, u) :
                          st.folders[f].name = zipFolderName
  IN IF existingFolder \/ zipFile.path \notin st.disk THEN st
     ELSE IF zipFile.path \notin DOMAIN st.zips THEN st
     ELSE IF folderId # Null /\ folderId \notin DOMAIN st.folders THEN st
     ELSE LET extractedId == st.nextFolderId
              s1 == [st EXCEPT !.folders = createFolder(@, extractedId, zipFolderName,
                                                        folderId, u),
                               !.nextFolderId = @ + 1,
                               !.cache = (<< >> :> extractedId)]
              s2 == AutoEntries(s1, u, st.zips[zipFile.path], extractedId, 1)
          IN [s2 EXCEPT !.files = permanentDeleteFile(@, zipFileId),
                        !.permissions = CascadeFilePerms(@, {zipFileId}),
                        !.disk = @ \ {zipFile.path},
                        !.cache = << >>]

\* for (const zipFile of zipFiles) { ... }: the states the loop can end in,
\* the listing giving the files in any order.
RECURSIVE AutoExtractAll(_, _, _, _, _)
AutoExtractAll(st, u, folderId, zipFiles, rows) ==
  IF zipFiles = {} THEN {st}
  ELSE UNION {AutoExtractAll(AutoExtractOne(st, u, folderId, z, rows[z]),
                             u, folderId, zipFiles \ {z}, rows)
                : z \in zipFiles}

\* The parents walked by the breadcrumb loop from currentId, seen being the
\* folders already visited: TRUE when the walk comes back to one of them.
RECURSIVE BreadcrumbsLoop(_, _, _)
BreadcrumbsLoop(tbl, currentId, seen) ==
  IF currentId = Null \/ currentId \notin DOMAIN tbl THEN FALSE
  ELSE IF currentId \in seen THEN TRUE
  ELSE BreadcrumbsLoop(tbl, tbl[currentId].parentId, seen \cup {currentId})

\* -------------------------------------------------------------- downloads
\* The folders addFolderToArchive reaches from the folders of S: getFolders
\* of each, again and again.
RECURSIVE ArchivedFolders(_, _, _)
ArchivedFolders(db, S, u) ==
  LET S2 == S \cup UNION {getFolders(db, x, u) : x \in S}
  IN IF S2 = S THEN S ELSE ArchivedFolders(db, S2, u)

\* addFolderToArchive comes back to a folder it is already in: it never ends.
AddFolderDiverges(db, folderId, u) ==
  \E x \in ArchivedFolders(db, {folderId}, u) :
    x \in ArchivedFolders(db, getFolders(db, x, u), u)

\* addFolderToArchive(folderId, ...): the files it puts into the archive,
\* every file getFiles returns for a folder reached whose content exists.
addFolderToArchive(db, dsk, folderId, u) ==
  {f \in UNION {getFiles(db, x, u) : x \in ArchivedFolders(db, {folderId}, u)} :
     db.files[f].path \in dsk}

\* Mutant of BulkAddFiles: the listed files are added without the check.
RECURSIVE BulkAddFilesNoCheck(_, _, _)
BulkAddFilesNoCheck(u, fileIds, k) ==
  IF k > Len(fileIds) THEN {<< >>}
  ELSE {(IF fileIds[k] \in DOMAIN files /\ files[fileIds[k]].path \in disk
         THEN <<fileIds[k]>> ELSE << >>) \o more
          : more \in BulkAddFilesNoCheck(u, fileIds, k + 1)}

\* for (const fileId of fileIds) { ... } of the bulk download, from the k-th
\* id on: the sequences of files that can be added.
RECURSIVE BulkAddFiles(_, _, _)
BulkAddFiles(u, fileIds, k) ==
  IF k > Len(fileIds) THEN {<< >>}
  ELSE UNION {{(IF canDownload /\ fileIds[k] \in DOMAIN files
                   /\ files[fileIds[k]].path \in disk
                THEN <<fileIds[k]>> ELSE << >>) \o more
                 : more \in BulkAddFiles(u, fileIds, k + 1)}
              : canDownload \in CheckAccess(fileIds[k], "file", u, "download")}

\* for (const folderId of folderIds) { ... } of the bulk download: the
\* folders whose content is added, for each way the checks can go.
RECURSIVE BulkAddFolders(_, _, _)
BulkAddFolders(u, folderIds, k) ==
  IF k > Len(folderIds) THEN {{}}
  ELSE UNION {{(IF canDownload /\ folderIds[k] \in DOMAIN folders
                THEN {folderIds[k]} ELSE {}) \cup more
                 : more \in BulkAddFolders(u, folderIds, k + 1)}
              : canDownload \in CheckAccess(folderIds[k], "folder", u, "download")}

\* ------------------------------------------------------------------ trash
getTrashFiles(db, userId) ==
  {f \in DOMAIN db.files :
     \/ db.files[f].deletedBy = userId
     \/ /\ db.files[f].deletedBy = Null
        /\ db.files[f].createdBy = userId
        /\ db.files[f].isDeleted}

getTrashFolders(db, userId) ==
  {f \in DOMAIN db.folders :
     \/ db.folders[f].deletedBy = userId
     \/ /\ db.folders[f].deletedBy = Null
        /\ db.folders[f].ownerId = userId
        /\ db.folders[f].isDeleted}

\* No request is in flight and none has been since the start.
NoCalls == [snap |-> << >>, log |-> << >>, run |-> << >>, n |-> 0]

\* ------------------------------------------------------------------- Init
Init ==
  /\ folders = << >>
  /\ files = << >>
  /\ permissions = << >>
  /\ disk = {}
  /\ nextFolderId = 1
  /\ nextFileId = 1
  /\ nextPermId = 1
  /\ resp = Response("none", Null, Null, 0)
  /\ zips = << >>
  /\ calls = NoCalls

\* --------------------------------------------------------------- handlers
\* POST /api/fs/folders: the body gives name and parentId; no access check.
\* A parentId that names no folder breaks the foreign key: 400.
CreateFolderReq(u, name, parentId) ==
  /\ IF parentId = Null \/ parentId \in DOMAIN folders
     THEN /\ folders' = createFolder(folders, nextFolderId, name, parentId, u)
          /\ nextFolderId' = nextFolderId + 1
          /\ resp' = Response("createFolder", u, nextFolderId, 201)
     ELSE /\ resp' = Response("createFolder", u, Null, 400)
          /\ UNCHANGED <<folders, nextFolderId>>
  /\ UNCHANGED <<files, permissions, disk, nextFileId, nextPermId, zips, calls>>

\* POST /api/fs/upload with one file: multer has stored the content under a
\* fresh path before the handler runs.  data is <<archive>> when the content
\* is a readable archive, << >> otherwise.
UploadReq(u, name, size, data, folderId) ==
  /\ \E canEdit \in (IF folderId # Null THEN CheckAccess(folderId, "folder", u, "edit") ELSE {TRUE}) :
       IF canEdit
       THEN /\ files' = createFile(files, nextFileId, name, folderId, size, nextFileId, u)
            /\ disk' = disk \cup {nextFileId}
            /\ zips' = IF data = << >> THEN zips ELSE (nextFileId :> data[1]) @@ zips
            /\ nextFileId' = nextFileId + 1
            /\ resp' = Response("upload", u, nextFileId, 201)
       ELSE /\ resp' = Response("upload", u, folderId, 403)
            /\ UNCHANGED <<files, disk, nextFileId, zips>>
  /\ UNCHANGED <<folders, permissions, nextFolderId, nextPermId, calls>>

\* POST /api/fs/share: only the owner of the target may grant.
ShareReq(u, targetId, targetType, userId, accessLevel) ==
  /\ IF IsOwner(targetId, targetType, u)
     THEN /\ permissions' = createPermission(permissions, nextPermId,
                               IF targetType = "file" THEN targetId ELSE Null,
                               IF targetType = "folder" THEN targetId ELSE Null,
                               userId, u, accessLevel)
          /\ nextPermId' = nextPermId + 1
          /\ resp' = Response("share", u, targetId, 201)
     ELSE /\ resp' = Response("share", u, targetId, 403)
          /\ UNCHANGED <<permissions, nextPermId>>
  /\ UNCHANGED <<folders, files, disk, nextFolderId, nextFileId, zips, calls>>

\* for (const item of items) { ... } of share-multiple, from item k on: the
\* Permission rows and the counter after it.  An item the requester does not
\* own is skipped.
RECURSIVE ShareItems(_, _, _, _, _, _, _)
ShareItems(perms, nextId, u, items, k, userId, accessLevel) ==
  IF k > Len(items) THEN [permissions |-> perms, nextPermId |-> nextId]
  ELSE IF ~IsOwner(items[k].id, items[k].type, u)
  THEN ShareItems(perms, nextId, u, items, k + 1, userId, accessLevel)
  ELSE ShareItems(createPermission(perms, nextId,
                                   IF items[k].type = "file" THEN items[k].id ELSE Null,
                                   IF items[k].type = "folder" THEN items[k].id ELSE Null,
                                   userId, u, accessLevel),
                  nextId + 1, u, items, k + 1, userId, accessLevel)

\* POST /api/fs/share-multiple: 403 when no item was shared, 201 otherwise.
ShareMultipleReq(u, items, userId, accessLevel) ==
  /\ IF items = << >>
     THEN /\ resp' = Response("shareMultiple", u, Null, 400)
          /\ UNCHANGED <<permissions, nextPermId>>
     ELSE LET r == ShareItems(permissions, nextPermId, u, items, 1, userId, accessLevel)
          IN /\ permissions' = r.permissions
             /\ nextPermId' = r.nextPermId
             /\ resp' = [Response("shareMultiple", u, Null,
                                  IF r.nextPermId = nextPermId THEN 403 ELSE 201)
                           EXCEPT !.req = items]
  /\ UNCHANGED <<folders, files, disk, nextFolderId, nextFileId, zips, calls>>

\* DELETE /api/fs/share/:permissionId: deletes the row, whoever asks.
RevokeReq(u, permissionId) ==
  /\ permissions' = deletePermission(permissions, permissionId)
  /\ resp' = Response("revoke", u, permissionId, 204)
  /\ UNCHANGED <<folders, files, disk, nextFolderId, nextFileId, nextPermId, zips, calls>>

\* PATCH /api/fs/files/:id/rename
RenameFileReq(u, id, name) ==
  /\ \E canEdit \in CheckAccess(id, "file", u, "edit") :
       IF ~canEdit
       THEN /\ resp' = Response("renameFile", u, id, 403)
            /\ UNCHANGED files
       ELSE IF id \notin DOMAIN files
       THEN /\ resp' = Response("renameFile", u, id, 404)
            /\ UNCHANGED files
       ELSE /\ files' = renameFile(files, id, name)
            /\ resp' = Response("renameFile", u, id, 200)
  /\ UNCHANGED <<folders, permissions, disk, nextFolderId, nextFileId, nextPermId, zips, calls>>

\* PATCH /api/fs/folders/:id/rename
RenameFolderReq(u, id, name) ==
  /\ \E canEdit \in CheckAccess(id, "folder", u, "edit") :
       IF ~canEdit
       THEN /\ resp' = Response("renameFolder", u, id, 403)
            /\ UNCHANGED folders
       ELSE IF id \notin DOMAIN folders
       THEN /\ resp' = Response("renameFolder", u, id, 404)
            /\ UNCHANGED folders
       ELSE /\ folders' = renameFolder(folders, id, name)
            /\ resp' = Response("renameFolder", u, id, 200)
  /\ UNCHANGED <<files, permissions, disk, nextFolderId, nextFileId, nextPermId, zips, calls>>

\* PATCH /api/fs/files/:id/move
MoveFileReq(u, id, folderId) ==
  /\ \E canEditSource \in CheckAccess(id, "file", u, "edit"),
        canEditDest \in (IF folderId # Null THEN CheckAccess(folderId, "folder", u, "edit")
                                            ELSE {TRUE}) :
       IF ~canEditSource \/ ~canEditDest
       THEN /\ resp' = [Response("moveFile", u, id, 403) EXCEPT !.arg = folderId]
            /\ UNCHANGED files
       ELSE IF id \notin DOMAIN files
       THEN /\ resp' = [Response("moveFile", u, id, 404) EXCEPT !.arg = folderId]
            /\ UNCHANGED files
       ELSE /\ files' = moveFile(files, id, folderId)
            /\ resp' = [Response("moveFile", u, id, 200) EXCEPT !.arg = folderId]
  /\ UNCHANGED <<folders, permissions, disk, nextFolderId, nextFileId, nextPermId, zips, calls>>

\* PATCH /api/fs/folders/:id/move
MoveFolderReq(u, id, parentId) ==
  /\ \E canEditSource \in CheckAccess(id, "folder", u, "edit"),
        canEditDest \in (IF parentId # Null THEN CheckAccess(parentId, "folder", u, "edit")
                                            ELSE {TRUE}) :
       IF ~canEditSource \/ ~canEditDest
       THEN /\ resp' = [Response("moveFolder", u, id, 403) EXCEPT !.arg = parentId]
            /\ UNCHANGED folders
       ELSE IF MoveFolderRejects(folders, id, parentId)
       THEN /\ resp' = [Response("moveFolder", u, id, 404) EXCEPT !.arg = parentId]
            /\ folders' = moveFolder(folders, id, parentId)
       ELSE /\ folders' = moveFolder(folders, id, parentId)
            /\ resp' = [Response("moveFolder", u, id, 200) EXCEPT !.arg = parentId]
  /\ UNCHANGED <<files, permissions, disk, nextFolderId, nextFileId, nextPermId, zips, calls>>

\* DELETE /api/fs/folders/:id: the owner soft-deletes, a holder of an edit
\* grant removes their own grants.
DeleteFolderReq(u, id) ==
  /\ IF id \notin DOMAIN folders
     THEN /\ resp' = Response("deleteFolder", u, id, 404)
          /\ UNCHANGED <<folders, permissions>>
     ELSE IF folders[id].ownerId = u
     THEN /\ folders' = deleteFolder(folders, id, u)
          /\ resp' = [Response("deleteFolder", u, id, 204) EXCEPT !.snap = <<Db>>]
          /\ UNCHANGED permissions
     ELSE \E canEdit \in CheckAccess(id, "folder", u, "edit") :
            IF ~canEdit
            THEN /\ resp' = Response("deleteFolder", u, id, 403)
                 /\ UNCHANGED <<folders, permissions>>
            ELSE /\ permissions' = removePermission(permissions, id, "folder", u)
                 /\ resp' = Response("deleteFolder", u, id, 204)
                 /\ UNCHANGED folders
  /\ UNCHANGED <<files, disk, nextFolderId, nextFileId, nextPermId, zips, calls>>

\* DELETE /api/fs/:fileId
DeleteFileReq(u, id) ==
  /\ IF id \notin DOMAIN files
     THEN /\ resp' = Response("deleteFile", u, id, 404)
          /\ UNCHANGED <<files, permissions>>
     ELSE IF files[id].createdBy = u
     THEN /\ files' = deleteFile(files, id, u)
          /\ resp' = [Response("deleteFile", u, id, 204) EXCEPT !.before = <<files[id]>>]
          /\ UNCHANGED permissions
     ELSE \E canEdit \in CheckAccess(id, "file", u, "edit") :
            IF ~canEdit
            THEN /\ resp' = Response("deleteFile", u, id, 403)
                 /\ UNCHANGED <<files, permissions>>
            ELSE /\ permissions' = removePermission(permissions, id, "file", u)
                 /\ resp' = Response("deleteFile", u, id, 204)
                 /\ UNCHANGED files
  /\ UNCHANGED <<folders, disk, nextFolderId, nextFileId, nextPermId, zips, calls>>

\* POST /api/fs/:fileId/restore: owner only.
RestoreFileReq(u, id) ==
  /\ IF id \notin DOMAIN files
     THEN /\ resp' = Response("restoreFile", u, id, 404)
          /\ UNCHANGED files
     ELSE IF files[id].createdBy # u
     THEN /\ resp' = Response("restoreFile", u, id, 403)
          /\ UNCHANGED files
     ELSE /\ files' = restoreFile(files, id)
          /\ resp' = [Response("restoreFile", u, id, 200) EXCEPT
                        !.before = IF resp.op = "deleteFile" /\ resp.id = id
                                   THEN resp.before ELSE << >>]
  /\ UNCHANGED <<folders, permissions, disk, nextFolderId, nextFileId, nextPermId, zips, calls>>

\* POST /api/fs/folders/:id/restore: canEdit is computed and never read.
RestoreFolderReq(u, id) ==
  /\ folders' = restoreFolder(folders, id)
  /\ resp' = [Response("restoreFolder", u, id, 200) EXCEPT
                !.snap = IF resp.op = "deleteFolder" /\ resp.id = id
                         THEN resp.snap ELSE << >>]
  /\ UNCHANGED <<files, permissions, disk, nextFolderId, nextFileId, nextPermId, zips, calls>>

\* DELETE /api/fs/:fileId/permanent: unlinks the content, then deletes the
\* row; there is no access check.  ok is whether the DELETE statement goes
\* through: when it is rejected (the connection is lost, or the tables were
\* made from the drizzle schema, whose permissions.file_id has no ON DELETE)
\* the catch answers 400, after the content has been unlinked.
PermanentDeleteFileReq(u, id, ok) ==
  /\ disk' = IF id \in DOMAIN files THEN disk \ {files[id].path} ELSE disk
  /\ IF ok
     THEN /\ files' = permanentDeleteFile(files, id)
          /\ permissions' = CascadeFilePerms(permissions, {id})
          /\ resp' = [Response("permanentDeleteFile", u, id, 204) EXCEPT
                        !.gone = {permissions[p] : p \in {q \in DOMAIN permissions :
                                                            permissions[q].fileId = id}}]
     ELSE /\ resp' = Response("permanentDeleteFile", u, id, 400)
          /\ UNCHANGED <<files, permissions>>
  /\ UNCHANGED <<folders, nextFolderId, nextFileId, nextPermId, zips, calls>>

\* DELETE /api/fs/folders/:id/permanent
PermanentDeleteFolderReq(u, id) ==
  \E canEdit \in CheckAccess(id, "folder", u, "edit") :
    IF ~canEdit
    THEN /\ resp' = Response("permanentDeleteFolder", u, id, 403)
         /\ UNCHANGED <<folders, files, permissions, disk, nextFolderId, nextFileId, nextPermId, zips, calls>>
    ELSE IF RecursionDiverges(folders, id)
    THEN /\ resp' = Response("permanentDeleteFolder", u, id, 0)
         /\ UNCHANGED <<folders, files, permissions, disk, nextFolderId, nextFileId, nextPermId, zips, calls>>
    ELSE LET r == permanentDeleteFolder(
                    [folders |-> folders, files |-> files, permissions |-> permissions], id)
         IN /\ folders' = r.db.folders
            /\ files' = r.db.files
            /\ permissions' = r.db.permissions
            /\ disk' = disk \ {r.allFiles[k].path : k \in 1..Len(r.allFiles)}
            /\ resp' = [Response("permanentDeleteFolder", u, id, 204) EXCEPT
                          !.ret = [k \in 1..Len(r.allFiles) |-> r.allFiles[k].id]]
            /\ UNCHANGED <<nextFolderId, nextFileId, nextPermId, zips, calls>>

\* POST /api/fs/upload-archive: the archive is read from the upload, ingested
\* below folderId and unlinked; it never gets a File row.
UploadArchiveReq(u, zip, folderId) ==
  /\ \E canEdit \in (IF folderId # Null THEN CheckAccess(folderId, "folder", u, "edit")
                                        ELSE {TRUE}) :
       IF ~canEdit
       THEN /\ resp' = [Response("uploadArchive", u, folderId, 403) EXCEPT !.archive = zip]
            /\ UNCHANGED <<folders, files, disk, nextFolderId, nextFileId>>
       ELSE \E st \in processZip(St, u, zip, folderId) :
              /\ folders' = st.folders
              /\ files' = st.files
              /\ disk' = st.disk
              /\ nextFolderId' = st.nextFolderId
              /\ nextFileId' = st.nextFileId
              /\ resp' = [Response("uploadArchive", u, folderId, 201) EXCEPT !.archive = zip]
  /\ UNCHANGED <<permissions, nextPermId, zips, calls>>

\* GET /api/fs?folderId=: breadcrumbs, the listing, the auto-extract of the
\* listed files named *.zip, and the listing again.  Neither the folder
\* asked for nor the access of the user to it is looked at.
ListReq(u, folderId) ==
  IF BreadcrumbsLoop(folders, folderId, {})
  THEN /\ resp' = Response("list", u, folderId, 0)
       /\ UNCHANGED <<folders, files, permissions, disk, nextFolderId, nextFileId,
                      nextPermId, zips, calls>>
  ELSE LET zipFiles == {f \in getFiles(St, folderId, u) : IsZipName(files[f].name)}
       IN \E st \in AutoExtractAll(St, u, folderId, zipFiles, files) :
            /\ folders' = st.folders
            /\ files' = st.files
            /\ permissions' = st.permissions
            /\ disk' = st.disk
            /\ nextFolderId' = st.nextFolderId
            /\ nextFileId' = st.nextFileId
            /\ zips' = st.zips
            /\ resp' = [Response("list", u, folderId, 200) EXCEPT
                          !.listing = [folders |-> getFolders(st, folderId, u),
                                       files |-> getFiles(st, folderId, u)]]
            /\ UNCHANGED <<nextPermId, calls>>

\* GET /api/fs/bulk-download?fileIds=&folderIds=: the files listed, each
\* after its own check, then the content of the folders listed, each folder
\* after its check.  The archive is streamed: ret holds the listed files
\* added, listing the folders descended from and the files added with them.
BulkDownloadReq(u, fileIds, folderIds) ==
  /\ IF fileIds = << >> /\ folderIds = << >>
     THEN resp' = [Response("bulkDownload", u, Null, 400) EXCEPT
                     !.req = <<fileIds, folderIds>>]
     ELSE \E added \in BulkAddFiles(u, fileIds, 1), roots \in BulkAddFolders(u, folderIds, 1) :
            IF \E x \in roots : AddFolderDiverges(Db, x, u)
            THEN resp' = [Response("bulkDownload", u, Null, 0) EXCEPT
                            !.req = <<fileIds, folderIds>>]
            ELSE resp' = [Response("bulkDownload", u, Null, 200) EXCEPT
                            !.req = <<fileIds, folderIds>>,
                            !.ret = added,
                            !.listing = [folders |-> roots,
                                         files |-> UNION {addFolderToArchive(Db, disk, x, u)
                                                            : x \in roots}]]
  /\ UNCHANGED <<folders, files, permissions, disk, nextFolderId, nextFileId, nextPermId, zips, calls>>

\* GET /api/fs/folders/:id/download
FolderDownloadReq(u, id) ==
  /\ \E canDownload \in CheckAccess(id, "folder", u, "download") :
       IF ~canDownload
       THEN resp' = Response("downloadFolder", u, id, 403)
       ELSE IF id \notin DOMAIN folders
       THEN resp' = Response("downloadFolder", u, id, 404)
       ELSE IF AddFolderDiverges(Db, id, u)
       THEN resp' = Response("downloadFolder", u, id, 0)
       ELSE resp' = [Response("downloadFolder", u, id, 200) EXCEPT
                       !.listing = [folders |-> {id},
                                    files |-> addFolderToArchive(Db, disk, id, u)]]
  /\ UNCHANGED <<folders, files, permissions, disk, nextFolderId, nextFileId, nextPermId, zips, calls>>

\* GET /api/fs/trash
TrashReq(u) ==
  /\ resp' = [Response("trash", u, Null, 200) EXCEPT
                !.listing = [folders |-> getTrashFolders(Db, u),
                             files |-> getTrashFiles(Db, u)]]
  /\ UNCHANGED <<folders, files, permissions, disk, nextFolderId, nextFileId, nextPermId, zips, calls>>

\* ------------------------------------------------ POST /api/fs/upload-folder
\* A folder upload is the sequence of the relative paths of its files, each
\* split at "/": "folder/sub/file.txt" is <<"folder", "sub", "file.txt">>.

\* getOrCreateFolder of the folder upload; folderCache maps "" to the
\* destination.
RECURSIVE UfGetOrCreateFolder(_, _, _)
UfGetOrCreateFolder(st, u, pathStr) ==
  IF pathStr = << >> \/ pathStr = <<".">>
  THEN {[st |-> st, id |-> st.cache[<< >>]]}
  ELSE IF pathStr \in DOMAIN st.cache
  THEN {[st |-> st, id |-> st.cache[pathStr]]}
  ELSE LET parentPath == Dirname(pathStr)
           ups == UfGetOrCreateFolder(st, u, IF parentPath = <<".">> THEN << >> ELSE parentPath)
       IN UNION {{[st |-> [r.st EXCEPT !.cache = (pathStr :> r.id) @@ @], id |-> r.id]
                    : r \in FindOrCreateFolder(up.st, u, up.id, Basename(pathStr))}
                 : up \in ups}

\* for (let i = 0; i < uploadedFiles.length; i++) { ... }, from file i on:
\* multer has stored the content before the handler runs.
RECURSIVE UfFiles(_, _, _, _)
UfFiles(st, u, paths, i) ==
  IF i > Len(paths) THEN {st}
  ELSE UNION {UfFiles(StoreEntry(r.st, u, Basename(paths[i]), r.id, << >>), u, paths, i + 1)
                : r \in UfGetOrCreateFolder(st, u, Dirname(paths[i]))}

\* The folder upload as a whole, below rootFolderId: the states it can end in.
uploadFolder(st, u, paths, rootFolderId) ==
  {[r EXCEPT !.cache = st.cache] :
     r \in UfFiles([st EXCEPT !.cache = (<< >> :> rootFolderId)], u, paths, 1)}

\* POST /api/fs/upload-folder, run from its start to its answer.
UploadFolderReq(u, paths, folderId) ==
  /\ \E canEdit \in (IF folderId # Null THEN CheckAccess(folderId, "folder", u, "edit")
                                        ELSE {TRUE}) :
       IF ~canEdit
       THEN /\ resp' = [Response("uploadFolder", u, folderId, 403) EXCEPT !.req = paths]
            /\ UNCHANGED <<folders, files, disk, nextFolderId, nextFileId>>
       ELSE IF paths = << >>
       THEN /\ resp' = [Response("uploadFolder", u, folderId, 400) EXCEPT !.req = paths]
            /\ UNCHANGED <<folders, files, disk, nextFolderId, nextFileId>>
       ELSE \E st \in uploadFolder(St, u, paths, folderId) :
              /\ folders' = st.folders
              /\ files' = st.files
              /\ disk' = st.disk
              /\ nextFolderId' = st.nextFolderId
              /\ nextFileId' = st.nextFileId
              /\ resp' = [Response("uploadFolder", u, folderId, 201) EXCEPT !.req = paths]
  /\ UNCHANGED <<permissions, nextPermId, zips, calls>>

\* ------------------------------------------------------ requests in flight
\* A handler is suspended at each await of a storage call, and the steps of
\* other requests run in between.  calls.run holds the requests in flight,
\* calls.log the requests begun since none was in flight, in the order they
\* began, calls.snap the tables as they were then, and calls.n the number of
\* requests that have been in flight since the start.

\* A request begins: it is logged and rec becomes its record in calls.run.
BeginCall(req, rec) ==
  IF DOMAIN calls.run = {}
  THEN [snap |-> <<St>>, log |-> <<req>>, run |-> (1 :> rec), n |-> calls.n + 1]
  ELSE [calls EXCEPT !.log = Append(@, req), !.run = (Len(calls.log) + 1 :> rec) @@ @,
                     !.n = @ + 1]

\* The request c has answered.
EndCall(c) == [calls EXCEPT !.run = [d \in (DOMAIN @) \ {c} |-> @[d]]]

\* The record of a request in flight: the handler (op), the session user,
\* the id in the request, and the locals the handler keeps: the paths and
\* the index of the file in hand, folderCache, the path getOrCreateFolder is
\* about to create (want), the result of its last getFolders (allFolders),
\* and the await the handler is suspended at (pc).
CallRecord(op, u, id, paths, pc) ==
  [op |-> op, user |-> u, id |-> id, paths |-> paths, i |-> 1,
   cache |-> (<< >> :> id), want |-> << >>, allFolders |-> {}, pc |-> pc]

\* Mutant of FindExisting: the result of the lookup is not looked at.
FindExistingNever(tbl, allFolders, folderName) == {}

\* allFolders.find(f => f.name === folderName && !f.isDeleted): the rows it
\* can return.
FindExisting(tbl, allFolders, folderName) ==
  {f \in allFolders : tbl[f].name = folderName /\ ~tbl[f].isDeleted}

\* The path getOrCreateFolder(folderPath) looks up next for the file in
\* hand: the shortest path leading to folderPath that folderCache does not
\* hold; << >> when it holds them all.
NextLookup(rec) ==
  LET d == Dirname(rec.paths[rec.i])
      folderPath == IF d = <<".">> THEN << >> ELSE d
      missing == {k \in 1..Len(folderPath) : SubSeq(folderPath, 1, k) \notin DOMAIN rec.cache}
  IN IF missing = {} THEN << >>
     ELSE SubSeq(folderPath, 1, CHOOSE k \in missing : \A j \in missing : k <= j)

\* upload-folder, up to its first await in the loop: the access check.
UploadFolderBegin(u, paths, folderId) ==
  /\ \E canEdit \in (IF folderId # Null THEN CheckAccess(folderId, "folder", u, "edit")
                                        ELSE {TRUE}) :
       IF ~canEdit
       THEN /\ resp' = [Response("uploadFolder", u, folderId, 403) EXCEPT !.req = paths]
            /\ UNCHANGED calls
       ELSE IF paths = << >>
       THEN /\ resp' = [Response("uploadFolder", u, folderId, 400) EXCEPT !.req = paths]
            /\ UNCHANGED calls
       ELSE /\ calls' = BeginCall([op |-> "uploadFolder", user |-> u, id |-> folderId,
                                   paths |-> paths],
                                  CallRecord("uploadFolder", u, folderId, paths, "resolve"))
            /\ UNCHANGED resp
  /\ UNCHANGED <<folders, files, permissions, disk, nextFolderId, nextFileId, nextPermId, zips>>

\* await storage.getFolders(parentId, user) of getOrCreateFolder and the find
\* on its result: the folder found goes into folderCache, or createFolder is
\* called.
UploadFolderLookup(c) ==
  /\ c \in DOMAIN calls.run
  /\ LET rec == calls.run[c]
         pathStr == NextLookup(rec)
         parentId == rec.cache[SubSeq(pathStr, 1, Len(pathStr) - 1)]
         allFolders == getFolders(Db, parentId, rec.user)
         existing == FindExisting(folders, allFolders, Basename(pathStr))
     IN /\ rec.op = "uploadFolder" /\ rec.pc = "resolve" /\ pathStr # << >>
        /\ IF existing # {}
           THEN \E f \in existing :
                  calls' = [calls EXCEPT !.run[c] =
                              [rec EXCEPT !.cache = (pathStr :> f) @@ @,
                                          !.allFolders = allFolders]]
           ELSE calls' = [calls EXCEPT !.run[c] =
                            [rec EXCEPT !.want = pathStr, !.allFolders = allFolders,
                                        !.pc = "create"]]
  /\ UNCHANGED <<folders, files, permissions, disk, nextFolderId, nextFileId, nextPermId,
                 resp, zips>>

\* await storage.createFolder(...) of getOrCreateFolder; a parent that is
\* gone breaks the foreign key and the catch answers 500.
UploadFolderCreate(c) ==
  /\ c \in DOMAIN calls.run
  /\ LET rec == calls.run[c]
         parentId == rec.cache[SubSeq(rec.want, 1, Len(rec.want) - 1)]
     IN /\ rec.op = "uploadFolder" /\ rec.pc = "create"
        /\ IF parentId # Null /\ parentId \notin DOMAIN folders
           THEN /\ calls' = EndCall(c)
                /\ resp' = [Response("uploadFolder", rec.user, rec.id, 500) EXCEPT
                              !.req = rec.paths]
                /\ UNCHANGED <<folders, nextFolderId>>
           ELSE /\ folders' = createFolder(folders, nextFolderId, Basename(rec.want),
                                           parentId, rec.user)
                /\ nextFolderId' = nextFolderId + 1
                /\ calls' = [calls EXCEPT !.run[c] =
                               [rec EXCEPT !.cache = (rec.want :> nextFolderId) @@ @,
                                           !.pc = "resolve"]]
                /\ UNCHANGED resp
  /\ UNCHANGED <<files, permissions, disk, nextFileId, nextPermId, zips>>

\* await storage.createFile(...) for the file in hand, once its folder is in
\* folderCache; after the last file the handler answers 201.
UploadFolderStore(c) ==
  /\ c \in DOMAIN calls.run
  /\ LET rec == calls.run[c]
         d == Dirname(rec.paths[rec.i])
         targetFolderId == rec.cache[IF d = <<".">> THEN << >> ELSE d]
     IN /\ rec.op = "uploadFolder" /\ rec.pc = "resolve" /\ NextLookup(rec) = << >>
        /\ IF targetFolderId # Null /\ targetFolderId \notin DOMAIN folders
           THEN /\ calls' = EndCall(c)
                /\ resp' = [Response("uploadFolder", rec.user, rec.id, 500) EXCEPT
                              !.req = rec.paths]
                /\ UNCHANGED <<files, disk, nextFileId>>
           ELSE /\ files' = createFile(files, nextFileId, Basename(rec.paths[rec.i]),
                                       targetFolderId, 1, nextFileId, rec.user)
                /\ disk' = disk \cup {nextFileId}
                /\ nextFileId' = nextFileId + 1
                /\ IF rec.i = Len(rec.paths)
                   THEN /\ calls' = EndCall(c)
                        /\ resp' = [Response("uploadFolder", rec.user, rec.id, 201) EXCEPT
                                      !.req = rec.paths]
                   ELSE /\ calls' = [calls EXCEPT !.run[c] = [rec EXCEPT !.i = @ + 1]]
                        /\ UNCHANGED resp
  /\ UNCHANGED <<folders, permissions, nextFolderId, nextPermId, zips>>

\* DELETE /api/fs/folders/:id, up to its second await: getFolder has answered.
DeleteFolderBegin(u, id) ==
  /\ IF id \notin DOMAIN folders
     THEN /\ resp' = Response("deleteFolder", u, id, 404)
          /\ UNCHANGED calls
     ELSE /\ calls' = BeginCall([op |-> "deleteFolder", user |-> u, id |-> id, paths |-> << >>],
                                CallRecord("deleteFolder", u, id, << >>,
                                           IF folders[id].ownerId = u THEN "delete"
                                                                      ELSE "check"))
          /\ UNCHANGED resp
  /\ UNCHANGED <<folders, files, permissions, disk, nextFolderId, nextFileId, nextPermId, zips>>

\* The awaits that follow: deleteFolder for the owner; checkAccess and then
\* removePermission for anyone else.
DeleteFolderStep(c) ==
  /\ c \in DOMAIN calls.run
  /\ LET rec == calls.run[c]
     IN /\ rec.op = "deleteFolder"
        /\ CASE rec.pc = "delete" ->
                  /\ folders' = deleteFolder(folders, rec.id, rec.user)
                  /\ calls' = EndCall(c)
                  /\ resp' = Response("deleteFolder", rec.user, rec.id, 204)
                  /\ UNCHANGED permissions
             [] rec.pc = "check" ->
                  \E canEdit \in CheckAccess(rec.id, "folder", rec.user, "edit") :
                    /\ IF canEdit
                       THEN /\ calls' = [calls EXCEPT !.run[c] = [rec EXCEPT !.pc = "unshare"]]
                            /\ UNCHANGED resp
                       ELSE /\ calls' = EndCall(c)
                            /\ resp' = Response("deleteFolder", rec.user, rec.id, 403)
                    /\ UNCHANGED <<folders, permissions>>
             [] rec.pc = "unshare" ->
                  /\ permissions' = removePermission(permissions, rec.id, "folder", rec.user)
                  /\ calls' = EndCall(c)
                  /\ resp' = Response("deleteFolder", rec.user, rec.id, 204)
                  /\ UNCHANGED folders
  /\ UNCHANGED <<files, disk, nextFolderId, nextFileId, nextPermId, zips>>

\* ---------------------------------------------------------- specifications
\* SpecAccess: what checkAccess reads (who owns what, which rows exist, the
\* grants) and the handlers that change it, with a rename to see a check act.
NextAccess ==
  \/ \E u \in Users, parentId \in 0..AccFolders :
       nextFolderId <= AccFolders /\ CreateFolderReq(u, "a", parentId)
  \/ \E u \in Users, folderId \in 0..AccFolders :
       nextFileId <= AccFiles /\ UploadReq(u, "a", 1, << >>, folderId)
  \/ \E u \in Users, targetId \in 1..AccFolders \cup 1..AccFiles, targetType \in TargetTypes,
        userId \in Users, accessLevel \in AccessLevels :
       nextPermId <= AccPerms /\ ShareReq(u, targetId, targetType, userId, accessLevel)
  \/ \E u \in Users, permissionId \in 1..AccPerms : RevokeReq(u, permissionId)
  \/ \E u \in Users, id \in 1..AccFiles, name \in Names : RenameFileReq(u, id, name)
  \/ \E u \in Users, id \in 1..AccFiles, ok \in BOOLEAN : PermanentDeleteFileReq(u, id, ok)
  \/ \E u \in Users, id \in 1..AccFolders : PermanentDeleteFolderReq(u, id)

SpecAccess == Init /\ [][NextAccess]_vars

\* SpecLife: every handler that changes a file or a folder, on one folder,
\* one file and one grant.
NextLife ==
  \/ \E u \in Users, name \in Names, parentId \in 0..LifeFolders :
       nextFolderId <= LifeFolders /\ CreateFolderReq(u, name, parentId)
  \/ \E u \in Users, name \in Names, size \in Sizes, folderId \in 0..LifeFolders :
       nextFileId <= LifeFiles /\ UploadReq(u, name, size, << >>, folderId)
  \/ \E u \in Users, targetId \in 1..LifeFolders \cup 1..LifeFiles, targetType \in TargetTypes,
        userId \in Users, accessLevel \in AccessLevels :
       nextPermId <= LifePerms /\ ShareReq(u, targetId, targetType, userId, accessLevel)
  \/ \E u \in Users, id \in 1..LifeFiles, name \in Names : RenameFileReq(u, id, name)
  \/ \E u \in Users, id \in 1..LifeFolders, name \in Names : RenameFolderReq(u, id, name)
  \/ \E u \in Users, id \in 1..LifeFiles, folderId \in 0..LifeFolders : MoveFileReq(u, id, folderId)
  \/ \E u \in Users, id \in 1..LifeFolders, parentId \in 0..LifeFolders : MoveFolderReq(u, id, parentId)
  \/ \E u \in Users, id \in 1..LifeFolders : DeleteFolderReq(u, id)
  \/ \E u \in Users, id \in 1..LifeFiles : DeleteFileReq(u, id)
  \/ \E u \in Users, id \in 1..LifeFiles : RestoreFileReq(u, id)
  \/ \E u \in Users, id \in 1..LifeFolders : RestoreFolderReq(u, id)
  \/ \E u \in Users, id \in 1..LifeFiles, ok \in BOOLEAN :
       PermanentDeleteFileReq(u, id, ok)
  \/ \E u \in Users, id \in 1..LifeFolders : PermanentDeleteFolderReq(u, id)
  \/ \E u \in Users : TrashReq(u)

SpecLife == Init /\ [][NextLife]_vars

\* SpecTree: the folder tree and the files in it; nothing is shared.
NextTree ==
  \/ \E u \in Users, parentId \in 0..TreeFolders :
       nextFolderId <= TreeFolders /\ CreateFolderReq(u, "a", parentId)
  \/ \E u \in Users, folderId \in 0..TreeFolders :
       nextFileId <= TreeFiles /\ UploadReq(u, "a", 1, << >>, folderId)
  \/ \E u \in Users, id \in 1..TreeFiles, folderId \in 0..TreeFolders : MoveFileReq(u, id, folderId)
  \/ \E u \in Users, id \in 1..TreeFolders, parentId \in 0..TreeFolders : MoveFolderReq(u, id, parentId)
  \/ \E u \in Users, id \in 1..TreeFolders : DeleteFolderReq(u, id)
  \/ \E u \in Users, id \in 1..TreeFolders : RestoreFolderReq(u, id)
  \/ \E u \in Users, id \in 1..TreeFiles : DeleteFileReq(u, id)
  \/ \E u \in Users, id \in 1..TreeFolders : PermanentDeleteFolderReq(u, id)

SpecTree == Init /\ [][NextTree]_vars
\* The entries of the archives that are uploaded.
DirEntry(pathStr) == [data |-> << >>, entryName |-> pathStr \o <<"">>, isDirectory |-> TRUE]
FileEntry(pathStr) == [data |-> << >>, entryName |-> pathStr, isDirectory |-> FALSE]
ZipEntry(pathStr, zip) == [data |-> <<zip>>, entryName |-> pathStr, isDirectory |-> FALSE]

\* a/, a/b/, a/b/c.txt; the same with the file first; the file alone;
\* docs.zip holding x.txt; a/ next to a.zip holding b/x.txt.
Archives ==
  { <<DirEntry(<<"a">>), DirEntry(<<"a", "b">>), FileEntry(<<"a", "b", "c.txt">>)>>,
    <<FileEntry(<<"a", "b", "c.txt">>), DirEntry(<<"a", "b">>), DirEntry(<<"a">>)>>,
    <<FileEntry(<<"a", "b", "c.txt">>)>>,
    <<ZipEntry(<<"docs.zip">>, <<FileEntry(<<"x.txt">>)>>)>>,
    <<DirEntry(<<"a">>), ZipEntry(<<"a.zip">>, <<FileEntry(<<"b", "x.txt">>)>>)>> }

\* SpecIngest: archives ingested at upload time and by the listing, next to
\* folders created and soft-deleted by hand.
NextIngest ==
  \/ \E u \in Users, name \in {"a", "docs"}, parentId \in 0..IngestFolders :
       nextFolderId <= IngestFolders /\ CreateFolderReq(u, name, parentId)
  \/ \E u \in Users, zip \in Archives, folderId \in 0..IngestFolders :
       nextFileId <= IngestFiles /\ UploadReq(u, "docs.zip", 1, <<zip>>, folderId)
  \/ \E u \in Users, zip \in Archives, folderId \in 0..IngestFolders :
       /\ nextFolderId <= IngestFolders /\ nextFileId <= IngestFiles
       /\ UploadArchiveReq(u, zip, folderId)
  \/ \E u \in Users, id \in 1..IngestFolders : DeleteFolderReq(u, id)
  \/ \E u \in Users, folderId \in 0..IngestFolders :
       nextFolderId <= IngestFolders + 2 /\ ListReq(u, folderId)

SpecIngest == Init /\ [][NextIngest]_vars
\* The lists of at most two ids a bulk download is asked with.
IdLists(n) ==
  {<< >>} \cup {<<i>> : i \in 1..n} \cup {<<i, j>> : i \in 1..n, j \in (1..n)}

\* SpecBulk: folders, files and grants, and the two downloads that build an
\* archive.
NextBulk ==
  \/ \E u \in Users, parentId \in 0..BulkFolders :
       nextFolderId <= BulkFolders /\ CreateFolderReq(u, "a", parentId)
  \/ \E u \in Users, folderId \in 0..BulkFolders :
       nextFileId <= BulkFiles /\ UploadReq(u, "a", 1, << >>, folderId)
  \/ \E u \in Users, targetId \in 1..BulkFolders \cup 1..BulkFiles, targetType \in TargetTypes,
        userId \in Users, accessLevel \in AccessLevels :
       nextPermId <= BulkPerms /\ ShareReq(u, targetId, targetType, userId, accessLevel)
  \/ \E u \in Users, fileIds \in IdLists(BulkFiles), folderIds \in IdLists(BulkFolders) :
       BulkDownloadReq(u, fileIds, folderIds)
  \/ \E u \in Users, id \in 1..BulkFolders : FolderDownloadReq(u, id)

SpecBulk == Init /\ [][NextBulk]_vars

\* SpecVis: what the listings show while folders and files are soft-deleted
\* and restored, in a tree of two folders with one file and one grant.
NextVis ==
  \/ \E u \in Users, parentId \in 0..VisFolders :
       nextFolderId <= VisFolders /\ CreateFolderReq(u, "a", parentId)
  \/ \E u \in Users, folderId \in 0..VisFolders :
       nextFileId <= VisFiles /\ UploadReq(u, "a", 1, << >>, folderId)
  \/ \E u \in Users, targetId \in 1..VisFolders \cup 1..VisFiles, targetType \in TargetTypes,
        userId \in Users, accessLevel \in AccessLevels :
       nextPermId <= VisPerms /\ ShareReq(u, targetId, targetType, userId, accessLevel)
  \/ \E u \in Users, id \in 1..VisFolders : DeleteFolderReq(u, id)
  \/ \E u \in Users, id \in 1..VisFiles : DeleteFileReq(u, id)
  \/ \E u \in Users, id \in 1..VisFolders : RestoreFolderReq(u, id)
  \/ \E u \in Users, id \in 1..VisFiles : RestoreFileReq(u, id)
  \/ \E u \in Users, folderId \in 0..VisFolders : ListReq(u, folderId)

SpecVis == Init /\ [][NextVis]_vars

\* SpecWalk: folders created and moved, and the requests that walk the tree:
\* the listing (breadcrumbs), the permanent folder delete and the two
\* downloads of folders.
NextWalk ==
  \/ \E u \in Users, parentId \in 0..WalkFolders :
       nextFolderId <= WalkFolders /\ CreateFolderReq(u, "a", parentId)
  \/ \E u \in Users, id \in 1..WalkFolders, parentId \in 0..WalkFolders : MoveFolderReq(u, id, parentId)
  \/ \E u \in Users, folderId \in 0..WalkFolders : ListReq(u, folderId)
  \/ \E u \in Users, id \in 1..WalkFolders : PermanentDeleteFolderReq(u, id)
  \/ \E u \in Users, id \in 1..WalkFolders : FolderDownloadReq(u, id)
  \/ \E u \in Users, folderIds \in IdLists(WalkFolders) : BulkDownloadReq(u, << >>, folderIds)

SpecWalk == Init /\ [][NextWalk]_vars

\* x.txt alone; a.zip, which cannot be read, followed by x.txt.
FailArchives ==
  { <<FileEntry(<<"x.txt">>)>>,
    <<FileEntry(<<"a.zip">>), FileEntry(<<"x.txt">>)>> }

\* SpecFail: uploads named *.zip whose content is or is not an archive, and
\* archives holding a nested archive that cannot be read, ingested at upload
\* time and by the listing.
NextFail ==
  \/ \E u \in Users, parentId \in 0..FailFolders :
       nextFolderId <= FailFolders /\ CreateFolderReq(u, "a", parentId)
  \/ \E u \in Users, name \in ZipNames, folderId \in 0..FailFolders,
        data \in {<< >>, << <<FileEntry(<<"x.txt">>)>> >>} :
       nextFileId <= FailFiles /\ UploadReq(u, name, 1, data, folderId)
  \/ \E u \in Users, zip \in FailArchives, folderId \in 0..FailFolders :
       /\ nextFolderId <= FailFolders + 1 /\ nextFileId <= FailFiles
       /\ UploadArchiveReq(u, zip, folderId)
  \/ \E u \in Users, folderId \in 0..FailFolders :
       nextFolderId <= FailFolders + 2 /\ ListReq(u, folderId)

SpecFail == Init /\ [][NextFail]_vars

\* The folder uploads of SpecRace: one file, a/f or a/b/f.
RacePaths == { << <<"a", "f">> >>, << <<"a", "b", "f">> >> }

\* A further request may begin.
MayBegin ==
  /\ calls.n < RaceCalls
  /\ DOMAIN calls.run = {} \/ Len(calls.log) < MaxCalls

\* SpecRace: folders made by hand while no request is in flight, then folder
\* uploads and soft deletes of folders whose steps interleave.
NextRace ==
  \/ \E u \in Users, parentId \in 0..RaceFolders :
       /\ nextFolderId <= RaceFolders /\ DOMAIN calls.run = {}
       /\ CreateFolderReq(u, "a", parentId)
  \/ \E u \in Users, paths \in RacePaths, folderId \in 0..RaceFolders :
       MayBegin /\ UploadFolderBegin(u, paths, folderId)
  \/ \E c \in 1..MaxCalls : UploadFolderLookup(c)
  \/ \E c \in 1..MaxCalls : UploadFolderCreate(c)
  \/ \E c \in 1..MaxCalls : UploadFolderStore(c)
  \/ \E u \in Users, id \in 1..RaceFolders : MayBegin /\ DeleteFolderBegin(u, id)
  \/ \E c \in 1..MaxCalls : DeleteFolderStep(c)

SpecRace == Init /\ [][NextRace]_vars

\* The lists of at most two items a share-multiple request names.
ItemLists ==
  LET Items == {[id |-> 1, type |-> t] : t \in TargetTypes}
  IN {<< >>} \cup {<<i>> : i \in Items} \cup {<<i, j>> : i \in Items, j \in Items}

\* SpecShare: one folder and one file, the two requests that grant, and the
\* requests that take Permission rows away.
NextShare ==
  \/ \E u \in Users, parentId \in 0..ShareFolders :
       nextFolderId <= ShareFolders /\ CreateFolderReq(u, "a", parentId)
  \/ \E u \in Users, folderId \in 0..ShareFolders :
       nextFileId <= ShareFiles /\ UploadReq(u, "a", 1, << >>, folderId)
  \/ \E u \in Users, targetId \in 1..ShareFolders \cup 1..ShareFiles, targetType \in TargetTypes,
        userId \in Users, accessLevel \in AccessLevels :
       nextPermId <= SharePerms /\ ShareReq(u, targetId, targetType, userId, accessLevel)
  \/ \E u \in Users, items \in ItemLists, userId \in Users, accessLevel \in AccessLevels :
       nextPermId + Len(items) <= SharePerms + 1
         /\ ShareMultipleReq(u, items, userId, accessLevel)
  \/ \E u \in Users, permissionId \in 1..SharePerms : RevokeReq(u, permissionId)
  \/ \E u \in Users, id \in 1..ShareFolders : DeleteFolderReq(u, id)
  \/ \E u \in Users, id \in 1..ShareFiles : DeleteFileReq(u, id)
  \/ \E u \in Users, id \in 1..ShareFiles, ok \in BOOLEAN : PermanentDeleteFileReq(u, id, ok)

SpecShare == Init /\ [][NextShare]_vars

\* The folder uploads of SpecDest: none, a/f or a/a/f.
DestPaths == { << >>, << <<"a", "f">> >>, << <<"a", "a", "f">> >> }

\* The archives of SpecDest: the same paths as entries.
DestArchives == { <<FileEntry(<<"a", "f">>)>>, <<FileEntry(<<"a", "a", "f">>)>> }

\* SpecDest: folders named a made by hand, one grant on a folder, and the two
\* ingestions that resolve the folders of a path: upload-archive and
\* upload-folder.
NextDest ==
  \/ \E u \in Users, parentId \in 0..DestFolders :
       nextFolderId <= DestFolders /\ CreateFolderReq(u, "a", parentId)
  \/ \E u \in Users, targetId \in 1..DestFolders, userId \in Users,
        accessLevel \in {"view", "edit"} :
       nextPermId <= DestPerms /\ ShareReq(u, targetId, "folder", userId, accessLevel)
  \/ \E u \in Users, zip \in DestArchives, folderId \in 0..DestFolders :
       nextFileId <= DestFiles /\ UploadArchiveReq(u, zip, folderId)
  \/ \E u \in Users, paths \in DestPaths, folderId \in 0..DestFolders :
       nextFileId <= DestFiles /\ UploadFolderReq(u, paths, folderId)

SpecDest == Init /\ [][NextDest]_vars

\* ------------------------------------------------------------------ claims
\* The ids of the rows of a table of the given type.
Existing(targetType) == IF targetType = "file" THEN DOMAIN files ELSE DOMAIN folders

\* createdBy / ownerId of an existing item.
OwnerOf(targetId, targetType) ==
  IF targetType = "file" THEN files[targetId].createdBy ELSE folders[targetId].ownerId

\* The stored levels of the grants userId holds on the item.
StoredLevels(targetId, targetType, userId) ==
  {permissions[p].accessLevel : p \in DirectPermissions(targetId, targetType, userId)}

\* C1 -- Ownership supremacy: for every existing file or folder and every
\* capability, checkAccess for the owner of the item answers true, and only
\* true, whether or not any Permission row exists for the item.
C1_OwnershipSupremacy ==
  \A targetType \in TargetTypes : \A targetId \in Existing(targetType) :
    \A requiredLevel \in AccessLevels :
      CheckAccess(targetId, targetType, OwnerOf(targetId, targetType), requiredLevel) = {TRUE}

\* C1 witness: the owner has renamed a file for which no Permission row
\* exists (the edit check of the handler passed on ownership alone).
C1_Witness ==
  /\ resp.op = "renameFile" /\ resp.status = 200
  /\ resp.id \in DOMAIN files
  /\ files[resp.id].createdBy = resp.user
  /\ \A p \in DOMAIN permissions : permissions[p].fileId # resp.id
  /\ CheckAccess(resp.id, "file", resp.user, "download") = {TRUE}

\* C2 -- View-any-grant: whoever holds at least one Permission row on an
\* item passes the view check on it, whatever level the rows store.
C2_ViewAnyGrant ==
  \A targetType \in TargetTypes : \A targetId \in Existing(targetType) : \A userId \in Users :
    DirectPermissions(targetId, targetType, userId) # {}
      => CheckAccess(targetId, targetType, userId, "view") = {TRUE}

\* C2 witness: a user who is not the owner holds grants on a file, none of
\* them of level view, and passes the view check.
C2_Witness ==
  \E targetId \in DOMAIN files : \E userId \in Users :
    /\ files[targetId].createdBy # userId
    /\ StoredLevels(targetId, "file", userId) # {}
    /\ "view" \notin StoredLevels(targetId, "file", userId)
    /\ CheckAccess(targetId, "file", userId, "view") = {TRUE}

\* C3 -- Edit-exactness: for a user who is not the owner, the edit check
\* answers true if and only if some Permission row of that user on the item
\* stores edit, also when the user holds several grants on the item.
C3_EditExactness ==
  \A targetType \in TargetTypes : \A targetId \in Existing(targetType) : \A userId \in Users :
    ~IsOwner(targetId, targetType, userId)
      => CheckAccess(targetId, targetType, userId, "edit")
           = {"edit" \in StoredLevels(targetId, targetType, userId)}

\* C4 -- Capability rule table: for a user who is not the owner and whose
\* grants on an item store level L, the check of capability R answers true
\* exactly when R = view or L = R.
C4_CapabilityRuleTable ==
  \A targetType \in TargetTypes : \A targetId \in Existing(targetType) : \A userId \in Users :
    \A storedLevel \in AccessLevels : \A requiredLevel \in AccessLevels :
      (/\ ~IsOwner(targetId, targetType, userId)
       /\ StoredLevels(targetId, targetType, userId) = {storedLevel})
        => CheckAccess(targetId, targetType, userId, requiredLevel)
             = {requiredLevel = "view" \/ storedLevel = requiredLevel}

\* C5 -- No inheritance: a user who neither owns an item nor holds a
\* Permission row on the item itself fails every check on it, whatever the
\* user holds on the folders above it; and a rename of a file that was not
\* denied was asked by its owner or by a holder of a grant on the file itself.
C5_NoInheritance ==
  /\ \A targetType \in TargetTypes : \A targetId \in Existing(targetType) : \A userId \in Users :
       (/\ ~IsOwner(targetId, targetType, userId)
        /\ DirectPermissions(targetId, targetType, userId) = {})
         => \A requiredLevel \in AccessLevels :
              CheckAccess(targetId, targetType, userId, requiredLevel) = {FALSE}
  /\ (resp.op = "renameFile" /\ resp.id \in DOMAIN files /\ resp.status # 403)
       => \/ IsOwner(resp.id, "file", resp.user)
          \/ DirectPermissions(resp.id, "file", resp.user) # {}

\* C5 witness: a user holding an edit grant on folder F, and nothing on the
\* file inside F that another user owns, was denied the rename of that file.
C5_Witness ==
  /\ resp.op = "renameFile" /\ resp.status = 403
  /\ resp.id \in DOMAIN files
  /\ files[resp.id].createdBy # resp.user
  /\ DirectPermissions(resp.id, "file", resp.user) = {}
  /\ files[resp.id].folderId \in DOMAIN folders
  /\ "edit" \in StoredLevels(files[resp.id].folderId, "folder", resp.user)
\* The handlers that change a file, and those that change a folder.
FileOps == {"renameFile", "moveFile", "deleteFile", "restoreFile", "permanentDeleteFile"}
FolderOps == {"renameFolder", "moveFolder", "deleteFolder", "restoreFolder",
              "permanentDeleteFolder"}
TypeOfOp(op) == IF op \in FileOps THEN "file" ELSE "folder"

\* C6 -- Capability check before mutation: a rename, move, soft delete,
\* restore or permanent delete asked by a user who neither owns the item nor
\* holds an edit grant on it is denied and leaves every File row, every
\* Folder row and the stored content unchanged.
C6_CheckBeforeMutation ==
  [][ (/\ resp'.op \in FileOps \cup FolderOps
       /\ resp'.id \in Existing(TypeOfOp(resp'.op))
       /\ ~IsOwner(resp'.id, TypeOfOp(resp'.op), resp'.user)
       /\ "edit" \notin StoredLevels(resp'.id, TypeOfOp(resp'.op), resp'.user))
      => (/\ resp'.status = 403
          /\ folders' = folders /\ files' = files /\ disk' = disk) ]_vars

\* C7 -- Cycle guard: moveFolder(f, f.id) on an existing folder returns no
\* folder and changes no row, and the move handler asked to move a folder
\* into itself answers no success and leaves every row unchanged.
C7_CycleGuard ==
  [][ /\ \A f \in DOMAIN folders :
           MoveFolderRejects(folders, f, f) /\ moveFolder(folders, f, f) = folders
      /\ (resp'.op = "moveFolder" /\ resp'.arg = resp'.id /\ resp'.id \in DOMAIN folders)
           => (/\ resp'.status # 200
               /\ folders' = folders /\ files' = files
               /\ permissions' = permissions /\ disk' = disk) ]_vars

\* C7 witness: the owner of a folder, whom every access check lets through,
\* asked to move it into itself and got 404; its parentId is as before.
C7_Witness ==
  /\ resp.op = "moveFolder" /\ resp.arg = resp.id /\ resp.status = 404
  /\ resp.id \in DOMAIN folders
  /\ folders[resp.id].ownerId = resp.user
  /\ folders[resp.id].parentId # resp.id

\* C8 -- Folder acyclicity: in every reachable state no folder is its own
\* ancestor along parentId.
C8_FolderAcyclic ==
  \A f \in DOMAIN folders : f \notin StrictDescendants(folders, f)

\* C9 -- Soft-delete/restore round trip for files: a restoreFile that
\* directly follows the deleteFile of the same file leaves the file with
\* isDeleted = false, deletedAt = null, deletedBy = null and the name,
\* folderId and size it had before the delete.
C9_FileRoundTrip ==
  (resp.op = "restoreFile" /\ resp.status = 200 /\ resp.before # << >>)
    => /\ resp.id \in DOMAIN files
       /\ files[resp.id].isDeleted = FALSE
       /\ files[resp.id].deletedAt = NullTs
       /\ files[resp.id].deletedBy = Null
       /\ files[resp.id].name = resp.before[1].name
       /\ files[resp.id].folderId = resp.before[1].folderId
       /\ files[resp.id].size = resp.before[1].size

\* C9 witness: a file that sat in a folder, not deleted, has been soft
\* deleted and then restored.
C9_Witness ==
  /\ resp.op = "restoreFile" /\ resp.status = 200 /\ resp.before # << >>
  /\ resp.before[1].isDeleted = FALSE
  /\ resp.before[1].folderId # Null
  /\ files[resp.id] = resp.before[1]

\* C10 -- Permanent-delete completeness: permanentDeleteFolder(F), once the
\* access check has passed, returns exactly the File rows of the subtree of F,
\* each once, and leaves no Folder row of the subtree and no File row whose
\* folderId is in the subtree.
C10_PermanentDeleteComplete ==
  [][ (/\ resp'.op = "permanentDeleteFolder"
       /\ resp'.id \in DOMAIN folders
       /\ resp'.status # 403)
      => LET subtree == Closure(folders, {resp'.id})
             inside == {f \in DOMAIN files : files[f].folderId \in subtree}
         IN /\ resp'.status = 204
            /\ Len(resp'.ret) = Cardinality(inside)
            /\ {resp'.ret[k] : k \in 1..Len(resp'.ret)} = inside
            /\ (DOMAIN folders') \cap subtree = {}
            /\ \A f \in DOMAIN files' : files'[f].folderId \notin subtree ]_vars

\* The nonempty prefixes of a path.
Prefixes(pathStr) == {SubSeq(pathStr, 1, i) : i \in 1..Len(pathStr)}

\* The stem a name ending in .zip is expected to give.
StemOf(name) == IF name = "docs.zip" THEN "docs" ELSE "a"

\* The distinct directory paths an archive names, relative to the place it is
\* ingested at: the directory entries, the directories of the file entries,
\* the folder each *.zip entry stands for and, below it, the directory paths
\* of the nested archive; each with the paths above it.
RECURSIVE DirPaths(_)
DirPaths(zip) ==
  UNION {LET entry == zip[k]
             dir == SubSeq(entry.entryName, 1, Len(entry.entryName) - 1)
             name == entry.entryName[Len(entry.entryName)]
         IN IF entry.isDirectory \/ name \notin ZipNames
            THEN Prefixes(dir)
            ELSE LET stem == StemOf(name)
                 IN Prefixes(dir \o <<stem>>)
                      \cup (IF entry.data = << >> THEN {}
                            ELSE {dir \o <<stem>> \o q : q \in DirPaths(entry.data[1])})
         : k \in 1..Len(zip)}

\* The names of the folder id and of the folders above it, n of them, top first.
RECURSIVE UpNames(_, _, _)
UpNames(tbl, id, n) ==
  IF n = 0 THEN << >>
  ELSE IF id \notin DOMAIN tbl THEN <<"?">>
  ELSE UpNames(tbl, tbl[id].parentId, n - 1) \o <<tbl[id].name>>

\* The folder n levels above the folder id (Null above a root folder).
RECURSIVE Up(_, _, _)
Up(tbl, id, n) ==
  IF n = 0 THEN id
  ELSE IF id \notin DOMAIN tbl THEN -1
  ELSE Up(tbl, tbl[id].parentId, n - 1)

\* The directory paths of the entries of an archive itself, nested archives
\* not opened.
FlatDirPaths(zip) ==
  UNION {Prefixes(SubSeq(zip[k].entryName, 1, Len(zip[k].entryName) - 1)) : k \in 1..Len(zip)}

\* C11 -- No duplicate folders within one ingestion pass: an upload-time
\* ingestion creates at most one Folder row for each distinct directory path
\* of the archive (no two rows it creates have the same parent and name, each
\* row it creates lies at one of the paths, one row at most per path), and
\* exactly one per path when no folder bore any of these names before,
\* whatever the order of the entries and whether or not the archive has
\* directory entries.  The same for the listing that extracts a stored
\* archive: below the folder it creates for the archive there is exactly one
\* new Folder row per directory path, and no other row is created.
C11_NoDuplicateFolders ==
  /\ [][ (resp'.op = "uploadArchive" /\ resp'.status = 201)
      => LET created == (DOMAIN folders') \ (DOMAIN folders)
             paths == DirPaths(resp'.archive)
             at(P) == {f \in created : /\ UpNames(folders', f, Len(P)) = P
                                        /\ Up(folders', f, Len(P)) = resp'.id}
             segments == UNION {{P[i] : i \in 1..Len(P)} : P \in paths}
         IN /\ \A f \in created : \A g \in created :
                 (f # g) => \/ folders'[f].parentId # folders'[g].parentId
                            \/ folders'[f].name # folders'[g].name
            /\ \A P \in paths : Cardinality(at(P)) <= 1
            /\ \A f \in created : \E P \in paths : f \in at(P)
            /\ (\A f \in DOMAIN folders : folders[f].name \notin segments)
                 => \A P \in paths : Cardinality(at(P)) = 1 ]_vars
  /\ [][ (resp'.op = "list" /\ resp'.status = 200)
         => LET created == (DOMAIN folders') \ (DOMAIN folders)
                extracted == (DOMAIN files) \ (DOMAIN files')
            IN /\ \A f \in created : \A g \in created :
                    (f # g) => \/ folders'[f].parentId # folders'[g].parentId
                               \/ folders'[f].name # folders'[g].name
               /\ (\E z \in extracted : extracted = {z})
                    => LET z == CHOOSE z \in extracted : TRUE
                           paths == FlatDirPaths(zips[files[z].path])
                           roots == {f \in created : folders'[f].parentId = resp'.id}
                       IN /\ Cardinality(roots) = 1
                          /\ \A P \in paths :
                               Cardinality({f \in created :
                                              /\ UpNames(folders', f, Len(P)) = P
                                              /\ Up(folders', f, Len(P)) \in roots}) = 1
                          /\ Cardinality(created) = 1 + Cardinality(paths) ]_vars

\* C11 witness: the archive a/, a/b/, a/b/c.txt has been ingested into the
\* empty root: folder a, folder b inside a, file c.txt inside b, and nothing
\* else.
C11_Witness ==
  /\ resp.op = "uploadArchive" /\ resp.status = 201 /\ resp.id = Null
  /\ Len(resp.archive) = 3 /\ resp.archive[1].isDirectory
  /\ DOMAIN folders = {1, 2} /\ DOMAIN files = {1}
  /\ folders[1].name = "a" /\ folders[1].parentId = Null
  /\ folders[2].name = "b" /\ folders[2].parentId = 1
  /\ files[1].name = "c.txt" /\ files[1].folderId = 2

\* The paths of the folders the *.zip entries of an archive stand for, those
\* of nested archives included.
RECURSIVE ZipFolderPaths(_)
ZipFolderPaths(zip) ==
  UNION {LET entry == zip[k]
             dir == SubSeq(entry.entryName, 1, Len(entry.entryName) - 1)
             name == entry.entryName[Len(entry.entryName)]
         IN IF entry.isDirectory \/ name \notin ZipNames THEN {}
            ELSE {dir \o <<StemOf(name)>>}
                   \cup (IF entry.data = << >> THEN {}
                         ELSE {dir \o <<StemOf(name)>> \o q : q \in ZipFolderPaths(entry.data[1])})
         : k \in 1..Len(zip)}

\* The paths of the file entries not named *.zip, those of nested archives
\* under the folder of their archive.
RECURSIVE FilePaths(_)
FilePaths(zip) ==
  UNION {LET entry == zip[k]
             dir == SubSeq(entry.entryName, 1, Len(entry.entryName) - 1)
             name == entry.entryName[Len(entry.entryName)]
         IN IF entry.isDirectory THEN {}
            ELSE IF name \notin ZipNames THEN {entry.entryName}
            ELSE IF entry.data = << >> THEN {}
            ELSE {dir \o <<StemOf(name)>> \o q : q \in FilePaths(entry.data[1])}
         : k \in 1..Len(zip)}

\* C12 -- Nested-archive expansion: after an upload-time ingestion, every
\* entry named *.zip has a folder named after its stem inside the folder
\* that contains the entry, the files of the nested archive are File rows
\* below that folder at their paths, one row per file entry, and no File row
\* created bears the name of a *.zip entry.
C12_NestedArchiveExpansion ==
  [][ (resp'.op = "uploadArchive" /\ resp'.status = 201)
      => LET createdFiles == (DOMAIN files') \ (DOMAIN files)
             zip == resp'.archive
         IN /\ \A f \in createdFiles : files'[f].name \notin ZipNames
            /\ \A P \in ZipFolderPaths(zip) :
                 \E g \in DOMAIN folders' :
                   /\ ~folders'[g].isDeleted
                   /\ UpNames(folders', g, Len(P)) = P
                   /\ Up(folders', g, Len(P)) = resp'.id
            /\ \A Q \in FilePaths(zip) :
                 \E f \in createdFiles :
                   /\ files'[f].name = Q[Len(Q)]
                   /\ UpNames(folders', files'[f].folderId, Len(Q) - 1)
                        = SubSeq(Q, 1, Len(Q) - 1)
                   /\ Up(folders', files'[f].folderId, Len(Q) - 1) = resp'.id
            /\ Cardinality(createdFiles) = Cardinality(FilePaths(zip)) ]_vars

\* C12 witness: the archive holding docs.zip, which holds x.txt, has been
\* ingested into the empty root: folder docs with file x.txt, and no File
\* row named docs.zip.
C12_Witness ==
  /\ resp.op = "uploadArchive" /\ resp.status = 201 /\ resp.id = Null
  /\ Len(resp.archive) = 1 /\ resp.archive[1].entryName = <<"docs.zip">>
  /\ DOMAIN folders = {1} /\ folders[1].name = "docs" /\ folders[1].parentId = Null
  /\ DOMAIN files = {1} /\ files[1].name = "x.txt" /\ files[1].folderId = 1

C14_BulkFolderContents ==
  [][ (resp'.op = "bulkDownload" /\ resp'.status = 200)
      => \A f \in resp'.listing.files :
           CheckAccess(f, "file", resp'.user, "download") = {TRUE} ]_vars

\* C15 -- Trash enumeration: in every reachable state a file or folder is in
\* the trash of user U exactly when its deletedBy is U, or its deletedBy is
\* unset and U owns it and it is flagged deleted; every item in a trash is
\* soft-deleted; an item just restored is in nobody's trash; and the trash
\* request answers with the trash of its user.
C15_TrashEnumeration ==
  /\ \A u \in Users :
       /\ \A f \in DOMAIN files :
            f \in getTrashFiles(Db, u)
              <=> \/ files[f].deletedBy = u
                  \/ files[f].deletedBy = Null /\ files[f].createdBy = u /\ files[f].isDeleted
       /\ \A f \in DOMAIN folders :
            f \in getTrashFolders(Db, u)
              <=> \/ folders[f].deletedBy = u
                  \/ folders[f].deletedBy = Null /\ folders[f].ownerId = u /\ folders[f].isDeleted
       /\ getTrashFiles(Db, u) \subseteq {f \in DOMAIN files : files[f].isDeleted}
       /\ getTrashFolders(Db, u) \subseteq {f \in DOMAIN folders : folders[f].isDeleted}
       /\ (resp.op = "restoreFile" /\ resp.status = 200) => resp.id \notin getTrashFiles(Db, u)
       /\ (resp.op = "restoreFolder" /\ resp.status = 200) => resp.id \notin getTrashFolders(Db, u)
  /\ resp.op = "trash"
       => /\ resp.listing.files = getTrashFiles(Db, resp.user)
          /\ resp.listing.folders = getTrashFolders(Db, resp.user)

\* C15 witness: the trash of a user holds the folder that user soft-deleted
\* and not the file of the same user, which exists and is not deleted.
C15_Witness ==
  /\ resp.op = "trash"
  /\ resp.listing.folders = {1} /\ folders[1].deletedBy = resp.user
  /\ resp.listing.files = {}
  /\ 1 \in DOMAIN files /\ files[1].createdBy = resp.user /\ ~files[1].isDeleted

\* The ids a request can name: those of the rows ever inserted, Null, and one
\* more.
AnyIds == 0..(nextFolderId + nextFileId)

\* C16 -- Missing item is deny: in every reachable state, for an id that
\* names no file (no folder), checkAccess answers false, and only false, for
\* every user and every capability; so too after the permanent delete of a
\* file that had been shared.
C16_MissingItemIsDeny ==
  \A targetType \in TargetTypes : \A targetId \in AnyIds \ Existing(targetType) :
    \A userId \in Users : \A requiredLevel \in AccessLevels :
      CheckAccess(targetId, targetType, userId, requiredLevel) = {FALSE}

\* C16 witness: a file shared at level edit has been permanently deleted, and
\* the user who held the grant now fails the view check on its id.
C16_Witness ==
  /\ resp.op = "permanentDeleteFile" /\ resp.id \notin DOMAIN files
  /\ \E g \in resp.gone :
       /\ g.accessLevel = "edit"
       /\ CheckAccess(resp.id, "file", g.userId, "view") = {FALSE}

\* C17 -- Not-found and forbidden are never conflated: a rename, move, soft
\* delete, restore, permanent delete or folder download that names an id of
\* no item is answered 404, and one on an existing item by a user who neither
\* owns it nor holds the grant the operation needs is answered 403.
C17_NotFoundVsForbidden ==
  [][ (resp'.op \in FileOps \cup FolderOps \cup {"downloadFolder"})
      => LET type == TypeOfOp(resp'.op)
             needed == IF resp'.op = "downloadFolder" THEN "download" ELSE "edit"
         IN /\ resp'.id \notin Existing(type) => resp'.status = 404
            /\ (/\ resp'.id \in Existing(type)
                /\ ~IsOwner(resp'.id, type, resp'.user)
                /\ needed \notin StoredLevels(resp'.id, type, resp'.user))
                 => resp'.status = 403 ]_vars

\* C18 -- Soft delete is shallow and non-destructive: the soft delete of a
\* folder or file by its owner changes isDeleted, deletedAt and deletedBy of
\* that one row and nothing else: every other Folder and File row, every
\* Permission row and the stored content are as before, and no row is gone.
C18_SoftDeleteShallow ==
  /\ [][ (/\ resp'.op = "deleteFolder" /\ resp'.status = 204
          /\ resp'.id \in DOMAIN folders
          /\ folders[resp'.id].ownerId = resp'.user)
         => /\ folders' = [folders EXCEPT ![resp'.id].isDeleted = folders'[resp'.id].isDeleted,
                                          ![resp'.id].deletedAt = folders'[resp'.id].deletedAt,
                                          ![resp'.id].deletedBy = folders'[resp'.id].deletedBy]
            /\ folders'[resp'.id].isDeleted /\ folders'[resp'.id].deletedBy = resp'.user
            /\ files' = files /\ permissions' = permissions /\ disk' = disk ]_vars
  /\ [][ (/\ resp'.op = "deleteFile" /\ resp'.status = 204
          /\ resp'.id \in DOMAIN files
          /\ files[resp'.id].createdBy = resp'.user)
         => /\ files' = [files EXCEPT ![resp'.id].isDeleted = files'[resp'.id].isDeleted,
                                      ![resp'.id].deletedAt = files'[resp'.id].deletedAt,
                                      ![resp'.id].deletedBy = files'[resp'.id].deletedBy]
            /\ files'[resp'.id].isDeleted /\ files'[resp'.id].deletedBy = resp'.user
            /\ folders' = folders /\ permissions' = permissions /\ disk' = disk ]_vars

\* C18 witness: a folder that holds a folder and, in it, a file has been
\* soft-deleted by its owner while a grant exists: the folder and the file
\* inside are not marked, and the content of the file is there.
C18_Witness ==
  /\ resp.op = "deleteFolder" /\ resp.status = 204
  /\ resp.id \in DOMAIN folders /\ folders[resp.id].isDeleted
  /\ folders[resp.id].ownerId = resp.user
  /\ permissions # << >>
  /\ \E g \in DOMAIN folders : \E f \in DOMAIN files :
       /\ folders[g].parentId = resp.id /\ ~folders[g].isDeleted
       /\ files[f].folderId = g /\ ~files[f].isDeleted
       /\ files[f].path \in disk

\* C19 -- Descendants of a deleted folder are hidden: no listing, of the
\* root or of any folder, for any user, returns a folder below a soft-deleted
\* folder F or a file in F or below it.
C19_DescendantsHidden ==
  (resp.op = "list" /\ resp.status = 200)
    => \A F \in DOMAIN folders :
         folders[F].isDeleted
           => /\ resp.listing.folders \cap StrictDescendants(folders, F) = {}
              /\ \A f \in resp.listing.files : files[f].folderId \notin Closure(folders, {F})

\* The listings of folder x, or of the root, for user u in the tables db.
ListingOf(db, x, u) == [folders |-> getFolders(db, x, u), files |-> getFiles(db, x, u)]

\* C20 -- Folder soft-delete/restore round trip: after folder F has been
\* soft-deleted and, as the next operation, restored, the listing of F and
\* of every folder below it is, for every user, what it was before the
\* delete; and when F was not deleted before, so is every other listing.
C20_FolderRoundTrip ==
  (resp.op = "restoreFolder" /\ resp.status = 200 /\ resp.snap # << >>)
    => LET old == resp.snap[1]
       IN /\ \A u \in Users : \A x \in Closure(old.folders, {resp.id}) :
               ListingOf(Db, x, u) = ListingOf(old, x, u)
          /\ ~old.folders[resp.id].isDeleted
               => \A u \in Users : \A x \in {Null} \cup DOMAIN old.folders :
                    ListingOf(Db, x, u) = ListingOf(old, x, u)

\* C20 witness: folder F, which holds a file never deleted and a folder that
\* had been soft-deleted on its own, has been soft-deleted and restored: its
\* listing shows the file and not the folder.
C20_Witness ==
  /\ resp.op = "restoreFolder" /\ resp.status = 200 /\ resp.snap # << >>
  /\ ~resp.snap[1].folders[resp.id].isDeleted
  /\ \E g \in DOMAIN folders : \E f \in DOMAIN files :
       /\ folders[g].parentId = resp.id /\ folders[g].isDeleted
       /\ files[f].folderId = resp.id /\ ~files[f].isDeleted
       /\ ListingOf(Db, resp.id, folders[resp.id].ownerId) = [folders |-> {}, files |-> {f}]

\* C21: a permanent file delete removes the content of a file only once the
\* File row is gone: after the request, rejected DELETE included, no File row
\* that is still there has lost, through this request, content it had before.
C21_PurgeOrdering ==
  [][resp'.op = "permanentDeleteFile"
       => \A f \in DOMAIN files' :
            f \in DOMAIN files /\ files[f].path \in disk => files'[f].path \in disk']_vars

\* The requests that walk the folder tree.
TreeWalks == {"list", "permanentDeleteFolder", "downloadFolder", "bulkDownload"}

\* C22: in every state reached by creating and moving folders, the breadcrumb
\* loop of a listing, permanentDeleteFolder and the recursive export of a
\* folder (single and bulk) come to an end: each such request is answered.
C22_TreeWalksTerminate ==
  resp.op \in TreeWalks => resp.status # 0

\* The files a listing returns that are named *.zip, have content that is no
\* archive and no folder named after their stem next to them.
FailingZips(db, listing) ==
  {f \in listing.files :
     /\ db.files[f].name \in ZipNames
     /\ db.files[f].path \in disk /\ db.files[f].path \notin DOMAIN zips
     /\ \A g \in listing.folders : db.folders[g].name # StemOf(db.files[f].name)}

\* C23 -- Partial failure is tolerated.  An upload-time ingestion of an
\* archive with a nested archive that cannot be read is answered 201 and
\* every directory path and every other file entry of the archive is there
\* afterwards; a listing that meets a *.zip it cannot extract is answered 200
\* and returns that file, every folder it listed before and every file it
\* listed before and did not extract.
C23_PartialFailureTolerated ==
  /\ [][ (/\ resp'.op = "uploadArchive" /\ resp'.status # 403
          /\ \E k \in 1..Len(resp'.archive) :
               /\ ~resp'.archive[k].isDirectory
               /\ resp'.archive[k].entryName[Len(resp'.archive[k].entryName)] \in ZipNames
               /\ resp'.archive[k].data = << >>)
         => LET zip == resp'.archive
                createdFiles == (DOMAIN files') \ (DOMAIN files)
            IN /\ resp'.status = 201
               /\ \A P \in DirPaths(zip) :
                    \E g \in DOMAIN folders' :
                      /\ ~folders'[g].isDeleted
                      /\ UpNames(folders', g, Len(P)) = P
                      /\ Up(folders', g, Len(P)) = resp'.id
               /\ \A Q \in FilePaths(zip) :
                    \E f \in createdFiles :
                      /\ files'[f].name = Q[Len(Q)]
                      /\ files'[f].path \in disk'
                      /\ UpNames(folders', files'[f].folderId, Len(Q) - 1)
                           = SubSeq(Q, 1, Len(Q) - 1)
                      /\ Up(folders', files'[f].folderId, Len(Q) - 1) = resp'.id ]_vars
  /\ [][ (/\ resp'.op = "list" /\ ~BreadcrumbsLoop(folders, resp'.id, {})
          /\ FailingZips(Db, ListingOf(Db, resp'.id, resp'.user)) # {})
         => LET listed == ListingOf(Db, resp'.id, resp'.user)
                extracted == (DOMAIN files) \ (DOMAIN files')
            IN /\ resp'.status = 200
               /\ FailingZips(Db, listed) \subseteq resp'.listing.files
               /\ FailingZips(Db, listed) \cap extracted = {}
               /\ listed.folders \subseteq resp'.listing.folders
               /\ (listed.files \ extracted) \subseteq resp'.listing.files ]_vars

\* C23 witness: a listing has met a *.zip whose content is no archive and
\* another it extracted: it was answered, with the first file and the folder
\* of the second.
C23_Witness ==
  /\ resp.op = "list" /\ resp.status = 200
  /\ FailingZips(Db, resp.listing) # {}
  /\ \E g \in resp.listing.folders :
       /\ folders[g].name = "docs"
       /\ \E x \in DOMAIN files : files[x].folderId = g /\ files[x].name = "x.txt"

\* C24 -- Auto-extraction happens at most once per archive.  Every folder a
\* listing creates directly in the folder listed is named after the stem of
\* a file the listing returned, which had no folder of that name next to it
\* in the listing and whose File row and content are gone afterwards; every
\* file the listing removes has such a folder, which the listing returns;
\* and the listing of the same folder by the same user, asked again at once,
\* changes no Folder row, no File row and no content.
C24_AutoExtractOnce ==
  /\ [][ (resp'.op = "list" /\ resp'.status = 200)
         => LET listed == ListingOf(Db, resp'.id, resp'.user)
                extracted == (DOMAIN files) \ (DOMAIN files')
                stems == {g \in (DOMAIN folders') \ (DOMAIN folders) :
                            folders'[g].parentId = resp'.id}
            IN /\ extracted \subseteq listed.files
               /\ \A z \in extracted :
                    /\ \A g \in listed.folders : folders[g].name # StemOf(files[z].name)
                    /\ files[z].path \notin disk'
                    /\ \E g \in stems : /\ folders'[g].name = StemOf(files[z].name)
                                        /\ g \in resp'.listing.folders
               /\ \A g \in stems :
                    \E z \in extracted : folders'[g].name = StemOf(files[z].name)
               /\ Cardinality(stems) = Cardinality(extracted)
               /\ (extracted = {}) => UNCHANGED <<folders, files, disk>> ]_vars
  /\ [][ (/\ resp.op = "list" /\ resp.status = 200
          /\ resp'.op = "list" /\ resp'.id = resp.id /\ resp'.user = resp.user)
         => UNCHANGED <<folders, files, disk>> ]_vars

\* C24 witness: a listing has extracted docs.zip: it returns the folder docs,
\* created by the user who asked, and no file named docs.zip any more.
C24_Witness ==
  /\ resp.op = "list" /\ resp.status = 200
  /\ \E g \in resp.listing.folders :
       /\ folders[g].name = "docs" /\ folders[g].ownerId = resp.user
       /\ \E x \in DOMAIN files : files[x].folderId = g
  /\ \A f \in resp.listing.files : files[f].name # "docs.zip"

\* The folder id of the tables db with everything below it, ids left out:
\* its row without parentId, the rows of its files without folderId and
\* path, and the folders inside it in the same form, each with the number of
\* times it occurs.  The tree must have no cycle.
RECURSIVE CanonFolder(_, _)
CanonFolder(db, id) ==
  LET inside == {c \in DOMAIN db.folders : db.folders[c].parentId = id}
      docs == {f \in DOMAIN db.files : db.files[f].folderId = id}
      FileRow(f) == [name |-> db.files[f].name, size |-> db.files[f].size,
                     createdBy |-> db.files[f].createdBy,
                     isDeleted |-> db.files[f].isDeleted,
                     deletedAt |-> db.files[f].deletedAt,
                     deletedBy |-> db.files[f].deletedBy]
      Sub(c) == CanonFolder(db, c)
  IN [row |-> IF id = Null THEN << >>
              ELSE << [name |-> db.folders[id].name, ownerId |-> db.folders[id].ownerId,
                       isDeleted |-> db.folders[id].isDeleted,
                       deletedAt |-> db.folders[id].deletedAt,
                       deletedBy |-> db.folders[id].deletedBy] >>,
      files |-> [v \in {FileRow(f) : f \in docs} |->
                   Cardinality({f \in docs : FileRow(f) = v})],
      folders |-> [v \in {Sub(c) : c \in inside} |->
                     Cardinality({c \in inside : Sub(c) = v})]]

\* The Folder and File rows of db up to the assignment of ids.
Canon(db) == CanonFolder(db, Null)

\* A logged request run alone, from its start to its answer, on the tables
\* st: the tables it can leave.  Nothing is shared in SpecRace, so a folder
\* can be edited by its owner only.
RunAlone(st, r) ==
  IF r.op = "uploadFolder"
  THEN IF r.id = Null \/ (r.id \in DOMAIN st.folders /\ st.folders[r.id].ownerId = r.user)
       THEN uploadFolder(st, r.user, r.paths, r.id)
       ELSE {st}
  ELSE IF r.id \in DOMAIN st.folders /\ st.folders[r.id].ownerId = r.user
       THEN {[st EXCEPT !.folders = deleteFolder(@, r.id, r.user)]}
       ELSE {st}

\* r1 run alone and then r2 run alone.
OneAfterTheOther(st, r1, r2) == UNION {RunAlone(s, r2) : s \in RunAlone(st, r1)}

\* The two requests of the log work on folders that are not the root, exist
\* and have no folder below them in common.
DisjointSubtrees(st, log) ==
  /\ Len(log) = 2
  /\ log[1].id \in DOMAIN st.folders /\ log[2].id \in DOMAIN st.folders
  /\ Closure(st.folders, {log[1].id}) \cap Closure(st.folders, {log[2].id}) = {}

\* C25 -- Independence on disjoint subtrees: when two requests (folder
\* uploads, soft deletes of a folder) whose folders are not the root and
\* have disjoint subtrees have run with their steps interleaved in any way,
\* the Folder and File rows are, up to the ids, those that running the first
\* and then the second leaves, and those that running the second and then
\* the first leaves.
C25_DisjointIndependence ==
  [][ (/\ DOMAIN calls.run # {} /\ DOMAIN calls'.run = {}
       /\ DisjointSubtrees(calls'.snap[1], calls'.log))
      => LET s0 == calls'.snap[1]
             r1 == calls'.log[1]
             r2 == calls'.log[2]
         IN /\ Canon(Db') \in {Canon(s) : s \in OneAfterTheOther(s0, r1, r2)}
            /\ Canon(Db') \in {Canon(s) : s \in OneAfterTheOther(s0, r2, r1)} ]_vars

\* C25 witness: two folder uploads into folders with disjoint subtrees have
\* both been answered 201 after their steps interleaved: of three folders
\* created one after the other, the first and the third lie below the folder
\* of one upload and the second below the folder of the other.
C25_Witness ==
  /\ DOMAIN calls.run = {} /\ calls.snap # << >>
  /\ resp.op = "uploadFolder" /\ resp.status = 201
  /\ DisjointSubtrees(calls.snap[1], calls.log)
  /\ calls.log[1].op = "uploadFolder" /\ calls.log[2].op = "uploadFolder"
  /\ \E f \in DOMAIN folders :
       /\ f \notin DOMAIN calls.snap[1].folders
       /\ {f + 1, f + 2} \subseteq DOMAIN folders
       /\ \E i \in {1, 2} :
            /\ {f, f + 2} \subseteq Closure(folders, {calls.log[i].id})
            /\ f + 1 \in Closure(folders, {calls.log[3 - i].id})

\* The non-deleted folders next to which a folder named name, made by user
\* u in the folder parentId, is a second one of that name in the listing of u.
SameNameSiblings(tbl, parentId, name, u) ==
  {g \in DOMAIN tbl :
     /\ tbl[g].parentId = parentId /\ tbl[g].name = name /\ ~tbl[g].isDeleted
     /\ parentId # Null \/ tbl[g].ownerId = u}

\* C26 -- Known race on a shared subtree.  Whenever the createFolder of a
\* folder upload gives a folder the parent and the name of a non-deleted
\* folder that is already there, that folder was not among the folders the
\* lookup of the upload returned and did not exist when the requests in
\* flight began: another upload created it between the lookup and the
\* insert.  (That such a state is reached is the witness.)
C26_DuplicateOnlyByRace ==
  [][ \A c \in DOMAIN calls.run :
        (/\ calls.run[c].op = "uploadFolder" /\ calls.run[c].pc = "create"
         /\ nextFolderId' = nextFolderId + 1
         /\ (c \in DOMAIN calls'.run => calls'.run[c] # calls.run[c]))
        => \A g \in SameNameSiblings(folders, folders'[nextFolderId].parentId,
                                     folders'[nextFolderId].name, calls.run[c].user) :
             /\ g \notin calls.run[c].allFolders
             /\ g \notin DOMAIN calls.snap[1].folders ]_vars

\* C26 witness: two folder uploads by one user into one folder have both
\* been answered 201 and have left two non-deleted folders of the same name
\* in it, neither of which was there before.
C26_Witness ==
  /\ DOMAIN calls.run = {} /\ Len(calls.log) = 2
  /\ resp.op = "uploadFolder" /\ resp.status = 201
  /\ calls.log[1].op = "uploadFolder" /\ calls.log[2].op = "uploadFolder"
  /\ calls.log[1].id = calls.log[2].id /\ calls.log[1].user = calls.log[2].user
  /\ \E f \in DOMAIN folders, g \in DOMAIN folders :
       /\ f # g
       /\ {f, g} \cap DOMAIN calls.snap[1].folders = {}
       /\ folders[f].parentId = calls.log[1].id /\ folders[g].parentId = calls.log[1].id
       /\ folders[f].name = folders[g].name
       /\ ~folders[f].isDeleted /\ ~folders[g].isDeleted
       /\ \E x \in DOMAIN files, y \in DOMAIN files :
            x # y /\ Up(folders, files[x].folderId, Len(calls.log[1].paths[1]) - 2) = f
                  /\ Up(folders, files[y].folderId, Len(calls.log[2].paths[1]) - 2) = g

\* C27 -- Only the owner grants.  share and share-multiple give every
\* Permission row they create a target the requester owns and the requester
\* as grantedBy; a request that names nothing the requester owns, whatever
\* grants the requester holds, creates no row; and in every state every
\* Permission row names a target that exists and was granted by its owner.
C27_OnlyOwnerGrants ==
  /\ [][ resp'.op \in {"share", "shareMultiple"}
         => /\ \A p \in (DOMAIN permissions') \ (DOMAIN permissions) :
                 LET t == IF permissions'[p].fileId # Null THEN "file" ELSE "folder"
                     x == IF t = "file" THEN permissions'[p].fileId
                                        ELSE permissions'[p].folderId
                 IN /\ x \in Existing(t) /\ OwnerOf(x, t) = resp'.user
                    /\ permissions'[p].grantedBy = resp'.user
            /\ \A p \in DOMAIN permissions : /\ p \in DOMAIN permissions'
                                             /\ permissions'[p] = permissions[p]
            /\ (resp'.op = "share" /\ ~(/\ resp'.id \in DOMAIN files \cup DOMAIN folders
                                        /\ \E t \in TargetTypes :
                                             /\ resp'.id \in Existing(t)
                                             /\ OwnerOf(resp'.id, t) = resp'.user))
                 => permissions' = permissions
            /\ (resp'.op = "shareMultiple"
                  /\ \A k \in 1..Len(resp'.req) :
                       ~(/\ resp'.req[k].id \in Existing(resp'.req[k].type)
                         /\ OwnerOf(resp'.req[k].id, resp'.req[k].type) = resp'.user))
                 => permissions' = permissions ]_vars
  /\ [](\A p \in DOMAIN permissions :
          LET t == IF permissions[p].fileId # Null THEN "file" ELSE "folder"
              x == IF t = "file" THEN permissions[p].fileId ELSE permissions[p].folderId
          IN x \in Existing(t) /\ permissions[p].grantedBy = OwnerOf(x, t))

\* C27 witness: a user who holds an edit grant on an item of another user
\* has asked to share it and got 403; the one Permission row is the grant
\* the owner made.
C27_Witness ==
  /\ resp.op \in {"share", "shareMultiple"} /\ resp.status = 403
  /\ Cardinality(DOMAIN permissions) = 1
  /\ \E p \in DOMAIN permissions :
       /\ permissions[p].userId = resp.user /\ permissions[p].accessLevel = "edit"
       /\ permissions[p].grantedBy # resp.user
       /\ \/ resp.op = "share" /\ resp.id \in {permissions[p].fileId, permissions[p].folderId}
          \/ /\ resp.op = "shareMultiple"
             /\ \E k \in 1..Len(resp.req) :
                  resp.req[k].id = (IF resp.req[k].type = "file" THEN permissions[p].fileId
                                                                  ELSE permissions[p].folderId)

\* C28 -- Delete by a non-owner is an unshare: when a user who does not own
\* a file or folder and holds an edit grant on it asks for its deletion, the
\* row keeps isDeleted, deletedAt and deletedBy, no Permission row of that
\* user on the item is left, the view check of that user on it answers false
\* afterwards, and the item is not in the trash of that user.
C28_NonOwnerDeleteIsUnshare ==
  [][ \A t \in TargetTypes : \A id \in Existing(t) : \A u \in Users :
        (/\ resp'.op = (IF t = "file" THEN "deleteFile" ELSE "deleteFolder")
         /\ resp'.id = id /\ resp'.user = u
         /\ OwnerOf(id, t) # u
         /\ "edit" \in StoredLevels(id, t, u))
        => /\ UNCHANGED <<folders, files>>
           /\ StoredLevels(id, t, u)' = {}
           /\ CheckAccess(id, t, u, "view")' = {FALSE}
           /\ id \notin (IF t = "file" THEN getTrashFiles(Db, u)'
                                      ELSE getTrashFolders(Db, u)') ]_vars

\* C29: a directory-listing request by user S, the auto-extraction it may
\* trigger included, never removes the File row or the backing content
\* object of a file that S does not own: every file created by another user
\* keeps its row, and its content if it had it, across every answered
\* listing.
C29_ListingKeepsOthersFiles ==
  [][ resp'.op = "list"
        => \A f \in DOMAIN files :
             files[f].createdBy # resp'.user
               => /\ f \in DOMAIN files'
                  /\ (files[f].path \in disk => files[f].path \in disk') ]_vars

\* The file row is where the path p puts it below the destination d for the
\* user u: the folders above it carry the names of the segments of p, each
\* the parent of the next, the first a child of d, and for d the root owned
\* by u.
PlacedBy(tbl, row, p, d, u) ==
  LET m == Len(p) - 1
  IN /\ Basename(p) = row.name
     /\ Up(tbl, row.folderId, m) = d
     /\ \A k \in 0..(m - 1) :
          /\ Up(tbl, row.folderId, k) \in DOMAIN tbl
          /\ tbl[Up(tbl, row.folderId, k)].name = p[m - k]
     /\ (d = Null /\ m >= 1) => tbl[Up(tbl, row.folderId, m - 1)].ownerId = u

\* The paths an answered ingestion was asked with.
IngestedPaths(r) ==
  IF r.op = "uploadArchive" THEN {r.archive[k].entryName : k \in DOMAIN r.archive}
  ELSE {r.req[k] : k \in DOMAIN r.req}

\* C30: during archive ingestion and folder upload every folder reused or
\* created for a path segment is a child of the folder resolved for the
\* parent path, and at a root destination the first one has parentId null
\* and is owned by the acting user: every file the request stores lies, by
\* parentId steps, as deep below the destination as its path says, under
\* folders named as the segments, never in a folder the user only sees
\* through a grant.
C30_IngestionInsideDestination ==
  [][ (resp'.op \in {"uploadArchive", "uploadFolder"} /\ resp'.status = 201)
        => \A f \in (DOMAIN files') \ DOMAIN files :
             \E p \in IngestedPaths(resp') :
               PlacedBy(folders', files'[f], p, resp'.id, resp'.user) ]_vars

====
